---- MODULE Spec2Model ----
(***************************************************************************)
(* The market monitor of andychenggg/Stocks: per-symbol sliding windows    *)
(* of closed klines, window statistics with peak/trough anchors, alert     *)
(* evaluation against the configured thresholds, alert dedup per           *)
(* (symbol, alert_type, threshold), multi-timezone daily opens, and the    *)
(* store / broadcaster calls each handler makes.                           *)
(*                                                                         *)
(* Prices are integers; every ratio the code computes with float division  *)
(* is kept as an exact fraction <<numerator, denominator>>.  Wall-clock    *)
(* time (time.time()) is the variable now, in seconds; exchange time       *)
(* (open_time, close_time) is in milliseconds as in the feed.              *)
(***************************************************************************)
EXTENDS Integers, Sequences, FiniteSets, TLC

VARIABLES
    windows,            \* MarketMonitor.windows: symbol -> deque(maxlen=N) of klines
    today_key_by_tz,    \* tz key -> symbol -> stored civil day (optional)
    today_open_by_tz,   \* tz key -> symbol -> stored open of that day (optional)
    last_alert_at,      \* dedup map: key -> wall-clock second of the last emitted alert
    last_price,         \* symbol -> last published price (optional)
    store,              \* the Store's tables: klines, window_stats, alerts
    failing,            \* the Store operations that currently raise
    now,                \* wall clock, seconds
    fed,                \* history: symbol -> the klines appended to its window, in order
    firings,            \* history: every _emit_alert call: key, wall-clock second, outcome
    sent_alerts,        \* history: every alert payload handed to broadcaster.broadcast
    last_call,          \* the latest handle_closed_kline call: kline, stats, calls made, raised
    seen_price,         \* history: symbol -> price of the last tick or closed kline handled
    clients,            \* BroadcastHub.clients: the registered sinks
    delivered,          \* sink -> the messages ws.send delivered to it, in order
    broken,             \* the sinks whose ws.send raises (connection closed)
    conn,               \* sink -> position of its connection handler, and what it fetched
    passes,             \* history: every pass of BroadcastHub.broadcast over a non-empty set
    sending,            \* the pass of BroadcastHub.broadcast in progress, between its sends
    inbox,              \* the upstream connection's messages not yet taken by the listener
    handling,           \* the message whose handle_stream_message call has not returned
    arrived,            \* the number of upstream messages so far
    trace,              \* history: the starts and returns of handle_stream_message
    link,               \* binance_listener: connecting, connected or sleeping after a failure
    worker,             \* retention_worker: its position, its last cutoff and how that prune ended
    starter,            \* the start-once guard: lock, _monitor_task, _monitor_thread, callers
    emitters            \* the tasks inside _emit_alert: their position between its awaits

\* the monitor's state and the histories of its calls
monitorVars == <<windows, today_key_by_tz, today_open_by_tz, last_alert_at, last_price,
                 store, failing, now, fed, firings, sent_alerts, last_call, seen_price>>

\* the BroadcastHub and the client connections
hubVars == <<clients, delivered, broken, conn, passes, sending>>

\* the upstream listener
listenerVars == <<inbox, handling, arrived, trace>>

\* the long-lived tasks around the monitor
taskVars == <<link, worker, starter, emitters>>

vars == <<monitorVars, hubVars, listenerVars, taskVars>>

---------------------------------------------------------------------------
(* Configuration (constructor arguments of MarketMonitor) and bounds *)

Symbols == {"btcusdt", "ethusdt"}

UntrackedSymbol == "dogeusdt"

\* str.upper on the symbols of the model
symbol_upper ==
    [s \in Symbols \cup {UntrackedSymbol} |->
        IF s = "btcusdt" THEN "BTCUSDT" ELSE IF s = "ethusdt" THEN "ETHUSDT" ELSE "DOGEUSDT"]

window_size_minutes == 2

\* 0.01 and 0.005, in configured order, as fractions
alert_thresholds == << <<1, 100>>, <<1, 200>> >>

alert_dedup_seconds == 180

\* "utc" -> UTC, "beijing" -> Asia/Shanghai (no daylight saving): UTC offset in seconds
timezone_keys == [utc |-> 0, beijing |-> 8 * 3600]

\* the callers of the start-once guard: AppConfig.ready (start_monitor_background)
\* and two client connections (ensure_monitor_started in CryptoConsumer.connect)
Callers == {"ready", "consumer1", "consumer2"}

\* the tasks that call into _emit_alert: two producers through _check_alerts
\* and the synthetic generator through emit_alert(force=True)
EmitTasks == {"feed1", "feed2", "generator"}

AlertTypes == {"rapid_drop", "rapid_rebound"}

\* the most klines one run feeds into the windows, over all symbols
MaxKlines == 4

\* the wall clock when the monitor is constructed (the end of the first
\* kline's minute), and how it advances
StartTime == 86400
TickSeconds == 90
MaxTicks == 2

\* open_time of the first kline of every symbol: 23:59 UTC of day 0
FirstOpenTime == 1439 * 60000

\* Optional[...] values: None is the empty sequence, a value v is <<v>>
NoneVal == << >>
Some(v) == << v >>
IsNone(o) == o = << >>
Get(o) == o[1]

---------------------------------------------------------------------------
(* Exact fractions standing for the code's float quotients *)

Frac(n, d) == << n, d >>

\* x >= y for fractions with non-zero denominators
FracGe(x, y) ==
    IF x[2] * y[2] > 0 THEN x[1] * y[2] >= y[1] * x[2]
                       ELSE x[1] * y[2] <= y[1] * x[2]

FracEq(x, y) == x[1] * y[2] = y[1] * x[2]

---------------------------------------------------------------------------
(* Closed klines *)

\* The OHLC shapes a closed candle takes in the model (low <= open, close <= high,
\* prices >= 0, as the exchange's candles are): flat at 1000; rising from 1000
\* to close at its high 1012; spiking from 1000 to 1021 and closing at 1011;
\* and the all-zero candle.
FlatCandle == [open |-> 1000, high |-> 1000, low |-> 1000, close |-> 1000]

Candles ==
    { FlatCandle,
      [open |-> 1000, high |-> 1012, low |-> 1000, close |-> 1012],
      [open |-> 1000, high |-> 1021, low |-> 1000, close |-> 1011],
      [open |-> 0,    high |-> 0,    low |-> 0,    close |-> 0] }

\* The "kline" events of the feed: k.x (closed or in progress), the symbol, the
\* candle.  Every candle arrives closed for every tracked symbol; the events the
\* handler drops are an in-progress candle and a candle of an untracked symbol.
KlineMessages ==
    { [s |-> s, x |-> TRUE, k |-> c] : s \in Symbols, c \in Candles }
        \cup { [s |-> s, x |-> FALSE, k |-> FlatCandle] : s \in Symbols }
        \cup { [s |-> UntrackedSymbol, x |-> TRUE, k |-> FlatCandle] }

\* ClosedKline built from a feed message for symbol s, the i-th (from 0) of its
\* one-minute candles
ClosedKline(s, i, c) ==
    [ symbol     |-> s,
      open_time  |-> FirstOpenTime + 60000 * i,
      close_time |-> FirstOpenTime + 60000 * i + 59999,
      open       |-> c.open,
      high       |-> c.high,
      low        |-> c.low,
      close      |-> c.close ]

TotalFed == Len(fed["btcusdt"]) + Len(fed["ethusdt"])

---------------------------------------------------------------------------
(* Window statistics: MarketMonitor._compute_window_stats *)

\* a deque without maxlen: nothing is ever dropped
WindowAppendUnbounded(window, kline) == Append(window, kline)

\* deque(maxlen=N).append: the oldest entry is dropped once N are held
WindowAppend(window, kline) ==
    IF Len(window) < window_size_minutes
        THEN Append(window, kline)
        ELSE Append(Tail(window), kline)

\* the latest kline's open taken for the base
OpenBaseLatest(window) == window[Len(window)].open

OpenBase(window) == window[1].open

Latest(window) == window[Len(window)]

\* the oldest kline taken for the peak
PeakOldest(window) == window[1]

\* the last kline attaining the maximum high taken for the peak
PeakLastOccurrence(window) ==
    LET i == CHOOSE i \in 1..Len(window) :
                /\ \A j \in 1..Len(window) : window[j].high <= window[i].high
                /\ \A j \in (i + 1)..Len(window) : window[j].high < window[i].high
    IN  window[i]

\* max(window, key=high): the first kline attaining the maximum high
Peak(window) ==
    LET i == CHOOSE i \in 1..Len(window) :
                /\ \A j \in 1..Len(window) : window[j].high <= window[i].high
                /\ \A j \in 1..(i - 1) : window[j].high < window[i].high
    IN  window[i]

\* min(window, key=low): the first kline attaining the minimum low
Trough(window) ==
    LET i == CHOOSE i \in 1..Len(window) :
                /\ \A j \in 1..Len(window) : window[j].low >= window[i].low
                /\ \A j \in 1..(i - 1) : window[j].low > window[i].low
    IN  window[i]

\* min(k.low for k in window)
MinLow(window) ==
    CHOOSE v \in { window[j].low : j \in 1..Len(window) } :
        \A j \in 1..Len(window) : v <= window[j].low

DropFromPeak(window) ==
    Frac(Peak(window).high - Latest(window).close, OpenBase(window))

RiseFromTrough(window) ==
    Frac(Latest(window).close - Trough(window).low, OpenBase(window))

\* the length test one short: statistics from N - 1 klines
WindowFullOneShort(window) == ~ (Len(window) < window_size_minutes - 1)

WindowFull(window) == ~ (Len(window) < window_size_minutes)

\* statistics computed without the test for a zero oldest open
ComputeWindowStatsZeroBase(window) ==
    IF ~ WindowFull(window) THEN NoneVal
    ELSE Some([ window_end            |-> Latest(window).close_time,
                change_close          |-> Frac(Latest(window).close - OpenBase(window), 1),
                change_low            |-> Frac(MinLow(window) - OpenBase(window), 1),
                change_high           |-> Frac(Peak(window).high - OpenBase(window), 1),
                length                |-> Len(window),
                reference_open        |-> OpenBase(window),
                reference_close       |-> Latest(window).close,
                reference_low         |-> MinLow(window),
                reference_high        |-> Peak(window).high,
                peak_price            |-> Peak(window).high,
                peak_ts               |-> Peak(window).close_time,
                peak_pct_from_open    |-> Frac(Peak(window).high - OpenBase(window), 1),
                trough_price          |-> Trough(window).low,
                trough_ts             |-> Trough(window).close_time,
                trough_pct_from_open  |-> Frac(Trough(window).low - OpenBase(window), 1),
                current_price         |-> Latest(window).close,
                current_ts            |-> Latest(window).close_time,
                current_pct_from_open |-> Frac(Latest(window).close - OpenBase(window), 1),
                drop_from_peak        |-> Frac(Peak(window).high - Latest(window).close, 1),
                rise_from_trough      |-> Frac(Latest(window).close - Trough(window).low, 1) ])

ComputeWindowStats(window) ==
    IF ~ WindowFull(window) THEN NoneVal
    ELSE IF OpenBase(window) = 0 THEN NoneVal
    ELSE LET open_base  == OpenBase(window)
             latest     == Latest(window)
             peak       == Peak(window)
             trough     == Trough(window)
             close_last == latest.close
         IN  Some([ window_end            |-> latest.close_time,
                    change_close          |-> Frac(close_last - open_base, open_base),
                    change_low            |-> Frac(MinLow(window) - open_base, open_base),
                    change_high           |-> Frac(peak.high - open_base, open_base),
                    length                |-> Len(window),
                    reference_open        |-> open_base,
                    reference_close       |-> close_last,
                    reference_low         |-> MinLow(window),
                    reference_high        |-> peak.high,
                    peak_price            |-> peak.high,
                    peak_ts               |-> peak.close_time,
                    peak_pct_from_open    |-> Frac(peak.high - open_base, open_base),
                    trough_price          |-> trough.low,
                    trough_ts             |-> trough.close_time,
                    trough_pct_from_open  |-> Frac(trough.low - open_base, open_base),
                    current_price         |-> close_last,
                    current_ts            |-> latest.close_time,
                    current_pct_from_open |-> Frac(close_last - open_base, open_base),
                    drop_from_peak        |-> DropFromPeak(window),
                    rise_from_trough      |-> RiseFromTrough(window) ])

---------------------------------------------------------------------------
(* Daily opens: MarketMonitor._update_daily_open, pct_change *)

\* dt.datetime.fromtimestamp(open_time / 1000, tz).date(), as days since the epoch
DayOf(tz_key, open_time) ==
    ((open_time \div 1000) + timezone_keys[tz_key]) \div 86400

\* the stored day of (tz, symbol) after the kline: every timezone is tested
UpdateDailyKey(keys, kline) ==
    [tz \in DOMAIN timezone_keys |->
        [s \in Symbols |->
            IF s = kline.symbol /\ keys[tz][s] # Some(DayOf(tz, kline.open_time))
                THEN Some(DayOf(tz, kline.open_time))
                ELSE keys[tz][s]]]

\* a loop that stops at the first timezone that rolled over: utc, then beijing
UpdateDailyOpenFirstRollover(keys, opens, kline) ==
    [tz \in DOMAIN timezone_keys |->
        [s \in Symbols |->
            IF /\ s = kline.symbol
               /\ keys[tz][s] # Some(DayOf(tz, kline.open_time))
               /\ (tz = "utc" \/ keys["utc"][s] = Some(DayOf("utc", kline.open_time)))
                THEN Some(kline.open)
                ELSE opens[tz][s]]]

\* the stored open that every closed kline overwrites
UpdateDailyOpenAlways(keys, opens, kline) ==
    [tz \in DOMAIN timezone_keys |->
        [s \in Symbols |-> IF s = kline.symbol THEN Some(kline.open) ELSE opens[tz][s]]]

\* the stored open overwritten only by a kline of a later date than the stored one
UpdateDailyOpenOnlyLater(keys, opens, kline) ==
    [tz \in DOMAIN timezone_keys |->
        [s \in Symbols |->
            IF /\ s = kline.symbol
               /\ \/ IsNone(keys[tz][s])
                  \/ (~ IsNone(keys[tz][s]) /\ Get(keys[tz][s]) < DayOf(tz, kline.open_time))
                THEN Some(kline.open)
                ELSE opens[tz][s]]]

\* the stored open of (tz, symbol) after the kline
UpdateDailyOpen(keys, opens, kline) ==
    [tz \in DOMAIN timezone_keys |->
        [s \in Symbols |->
            IF s = kline.symbol /\ keys[tz][s] # Some(DayOf(tz, kline.open_time))
                THEN Some(kline.open)
                ELSE opens[tz][s]]]

\* pct_change without the test for a zero base
PctChangeZeroBase(base, value) ==
    IF IsNone(base) \/ IsNone(value) THEN NoneVal
    ELSE Some(Frac(Get(value) - Get(base), Get(base)))

PctChange(base, value) ==
    IF IsNone(base) \/ IsNone(value) THEN NoneVal
    ELSE IF Get(base) = 0 THEN NoneVal
    ELSE Some(Frac(Get(value) - Get(base), Get(base)))

\* self.today_open_by_tz[tz_key].get(symbol): None for a symbol without entry
DayOpen(opens, tz_key, symbol) ==
    IF symbol \in DOMAIN opens[tz_key] THEN opens[tz_key][symbol] ELSE NoneVal

\* the payload MarketMonitor._publish_price broadcasts
PricePayload(symbol, price, ts_ms, opens) ==
    [ type                |-> "price",
      symbol              |-> symbol_upper[symbol],
      price               |-> price,
      day_open            |-> [tz \in DOMAIN timezone_keys |-> DayOpen(opens, tz, symbol)],
      pct_from_day_open   |-> [tz \in DOMAIN timezone_keys |->
                                  PctChange(DayOpen(opens, tz, symbol), Some(price))],
      today_open          |-> DayOpen(opens, "utc", symbol),
      pct_from_today_open |-> PctChange(DayOpen(opens, "utc", symbol), Some(price)),
      ts                  |-> ts_ms ]

\* MarketMonitor.snapshot: one entry per tracked symbol, under its upper-case name
Snapshot ==
    [S \in { symbol_upper[s] : s \in Symbols } |->
        LET sym == CHOOSE s \in Symbols : symbol_upper[s] = S
        IN  [ price               |-> last_price[sym],
              day_open            |-> [tz \in DOMAIN timezone_keys |->
                                          DayOpen(today_open_by_tz, tz, sym)],
              pct_from_day_open   |-> [tz \in DOMAIN timezone_keys |->
                                          PctChange(DayOpen(today_open_by_tz, tz, sym),
                                                    last_price[sym])],
              today_open          |-> DayOpen(today_open_by_tz, "utc", sym),
              pct_from_today_open |-> PctChange(DayOpen(today_open_by_tz, "utc", sym),
                                                last_price[sym]) ]]

---------------------------------------------------------------------------
(* Alerts: MarketMonitor._check_alerts, MarketMonitor._emit_alert *)

\* a key that takes the first configured threshold whatever the threshold is
AlertKeyWithoutThreshold(symbol, alert_type, threshold) ==
    << symbol, alert_type, alert_thresholds[1] >>

AlertKey(symbol, alert_type, threshold) == << symbol, alert_type, threshold >>

\* self.last_alert_at.get(key, 0)
LastAt(map, key) == IF key \in DOMAIN map THEN map[key] ELSE 0

\* the key's time left unwritten when the dedup test passes
SetLastAtDropped(map, key, now_sec) == map

\* self.last_alert_at[key] = now_sec
SetLastAt(map, key, now_sec) ==
    [k \in (DOMAIN map) \cup {key} |-> IF k = key THEN now_sec ELSE map[k]]

\* the dedup test with <= in place of <: a firing exactly one window later is lost
DedupSuppressedInclusive(now_sec, last_at) == now_sec - last_at <= alert_dedup_seconds

\* the dedup test of _emit_alert
DedupSuppressed(now_sec, last_at) == now_sec - last_at < alert_dedup_seconds

\* the drop test with > in place of >=
DropFiresStrict(stats, threshold) == ~ FracGe(threshold, stats.drop_from_peak)

DropFires(stats, threshold) == FracGe(stats.drop_from_peak, threshold)

RiseFires(stats, threshold) == FracGe(stats.rise_from_trough, threshold)

AnchorType(alert_type) == IF alert_type = "rapid_drop" THEN "peak" ELSE "trough"

\* the anchor with the two branches exchanged
AnchorReversed(alert_type, stats) ==
    IF alert_type = "rapid_drop"
        THEN [ price |-> stats.trough_price,
               ts    |-> stats.trough_ts,
               pct   |-> stats.trough_pct_from_open,
               move  |-> stats.rise_from_trough ]
        ELSE [ price |-> stats.peak_price,
               ts    |-> stats.peak_ts,
               pct   |-> stats.peak_pct_from_open,
               move  |-> stats.drop_from_peak ]

\* anchor_price, anchor_ts, anchor_pct, move_from_anchor of _emit_alert
Anchor(alert_type, stats) ==
    IF alert_type = "rapid_drop"
        THEN [ price |-> stats.peak_price,
               ts    |-> stats.peak_ts,
               pct   |-> stats.peak_pct_from_open,
               move  |-> stats.drop_from_peak ]
        ELSE [ price |-> stats.trough_price,
               ts    |-> stats.trough_ts,
               pct   |-> stats.trough_pct_from_open,
               move  |-> stats.rise_from_trough ]

\* the payload _emit_alert broadcasts
AlertPayload(alert_type, threshold, symbol, stats) ==
    [ type           |-> "alert",
      symbol         |-> symbol_upper[symbol],
      alert_type     |-> alert_type,
      magnitude      |-> threshold,
      window_minutes |-> window_size_minutes,
      ts             |-> stats.current_ts,
      reference      |->
        [ open                  |-> stats.reference_open,
          close                 |-> stats.current_price,
          low                   |-> stats.reference_low,
          high                  |-> stats.peak_price,
          peak_price            |-> stats.peak_price,
          peak_ts               |-> stats.peak_ts,
          current_price         |-> stats.current_price,
          current_ts            |-> stats.current_ts,
          drop_from_peak        |-> stats.drop_from_peak,
          rise_from_trough      |-> stats.rise_from_trough,
          anchor_type           |-> AnchorType(alert_type),
          anchor_price          |-> Anchor(alert_type, stats).price,
          anchor_ts             |-> Anchor(alert_type, stats).ts,
          anchor_pct_from_open  |-> Anchor(alert_type, stats).pct,
          current_pct_from_open |-> stats.current_pct_from_open,
          move_from_anchor      |-> Anchor(alert_type, stats).move ] ]

\* the row _emit_alert hands to Store.insert_alert
AlertRow(alert_type, threshold, symbol, stats) ==
    [ symbol                |-> symbol,
      alert_type            |-> alert_type,
      magnitude             |-> threshold,
      ts                    |-> stats.current_ts,
      reference_open        |-> stats.reference_open,
      reference_close       |-> stats.current_price,
      reference_low         |-> stats.reference_low,
      reference_high        |-> stats.peak_price,
      reference_peak_ts     |-> stats.peak_ts,
      reference_current_ts  |-> stats.current_ts,
      drop_from_peak        |-> stats.drop_from_peak,
      anchor_type           |-> AnchorType(alert_type),
      anchor_price          |-> Anchor(alert_type, stats).price,
      anchor_ts             |-> Anchor(alert_type, stats).ts,
      anchor_pct_from_open  |-> Anchor(alert_type, stats).pct,
      current_pct_from_open |-> stats.current_pct_from_open,
      move_from_anchor      |-> Anchor(alert_type, stats).move ]

Call(name, arg) == [call |-> name, arg |-> arg]

\* one _emit_alert call in the history: outcome is "emitted", "suppressed" (the
\* dedup test returned) or "raised" (insert_alert raised)
Firing(symbol, alert_type, threshold, now_sec, outcome) ==
    [ symbol |-> symbol, alert_type |-> alert_type, threshold |-> threshold,
      at |-> now_sec, outcome |-> outcome ]

\* a suppressed firing that restarts the key's window
SuppressAndTouch(m, symbol, alert_type, threshold, now_sec) ==
    [m EXCEPT !.last_alert_at = SetLastAt(@, << symbol, alert_type, threshold >>, now_sec),
              !.firings = Append(@, Firing(symbol, alert_type, threshold,
                                            now_sec, "suppressed"))]

\* the dedup test returned: nothing but the return
Suppress(m, symbol, alert_type, threshold, now_sec) ==
    [m EXCEPT !.firings = Append(@, Firing(symbol, alert_type, threshold,
                                            now_sec, "suppressed"))]

\* an _emit_alert that broadcasts first and persists afterwards
EmitAlertBroadcastsFirst(m, alert_type, threshold, symbol, stats, now_sec) ==
    LET key     == AlertKey(symbol, alert_type, threshold)
        last_at == LastAt(m.last_alert_at, key)
        entered == [m EXCEPT !.calls = Append(@, Call("_emit_alert",
                                            << symbol, alert_type, threshold >>))]
    IN  IF m.raised THEN m
        ELSE IF DedupSuppressed(now_sec, last_at)
            THEN Suppress(entered, symbol, alert_type, threshold, now_sec)
        ELSE [entered EXCEPT
                    !.last_alert_at = SetLastAt(@, key, now_sec),
                    !.alerts  = Append(@, AlertRow(alert_type, threshold, symbol, stats)),
                    !.calls   = Append(Append(@,
                                    Call("broadcast",
                                         AlertPayload(alert_type, threshold, symbol, stats))),
                                    Call("insert_alert",
                                         AlertRow(alert_type, threshold, symbol, stats))),
                    !.sent_alerts = Append(@, AlertPayload(alert_type, threshold, symbol, stats)),
                    !.firings = Append(@, Firing(symbol, alert_type, threshold,
                                                 now_sec, "emitted"))]

\* an _emit_alert that writes the key's time only after insert_alert returned
EmitAlertMarksAfterInsert(m, alert_type, threshold, symbol, stats, now_sec) ==
    LET key     == AlertKey(symbol, alert_type, threshold)
        last_at == LastAt(m.last_alert_at, key)
        entered == [m EXCEPT !.calls = Append(@, Call("_emit_alert",
                                            << symbol, alert_type, threshold >>))]
    IN  IF m.raised THEN m
        ELSE IF DedupSuppressed(now_sec, last_at)
            THEN Suppress(entered, symbol, alert_type, threshold, now_sec)
        ELSE IF "insert_alert" \in failing
            THEN [entered EXCEPT
                    !.calls   = Append(@, Call("insert_alert",
                                    AlertRow(alert_type, threshold, symbol, stats))),
                    !.firings = Append(@, Firing(symbol, alert_type, threshold,
                                                 now_sec, "raised")),
                    !.raised  = TRUE]
        ELSE [entered EXCEPT
                    !.last_alert_at = SetLastAt(@, key, now_sec),
                    !.alerts  = Append(@, AlertRow(alert_type, threshold, symbol, stats)),
                    !.calls   = Append(Append(@,
                                    Call("insert_alert",
                                         AlertRow(alert_type, threshold, symbol, stats))),
                                    Call("broadcast",
                                         AlertPayload(alert_type, threshold, symbol, stats))),
                    !.sent_alerts = Append(@, AlertPayload(alert_type, threshold, symbol, stats)),
                    !.firings = Append(@, Firing(symbol, alert_type, threshold,
                                                 now_sec, "emitted"))]

\* _emit_alert on the running state m of one handler call (dedup map, alerts
\* table, calls made, histories, exception raised).  The dedup test and the
\* update of the key's time come first; a raising insert_alert leaves the time
\* updated and skips the broadcast.
EmitAlert(m, alert_type, threshold, symbol, stats, now_sec) ==
    LET key     == AlertKey(symbol, alert_type, threshold)
        last_at == LastAt(m.last_alert_at, key)
        entered == [m EXCEPT !.calls = Append(@, Call("_emit_alert",
                                            << symbol, alert_type, threshold >>))]
    IN  IF m.raised THEN m
        ELSE IF DedupSuppressed(now_sec, last_at)
            THEN Suppress(entered, symbol, alert_type, threshold, now_sec)
        ELSE IF "insert_alert" \in failing
            THEN [entered EXCEPT
                    !.last_alert_at = SetLastAt(@, key, now_sec),
                    !.calls   = Append(@, Call("insert_alert",
                                    AlertRow(alert_type, threshold, symbol, stats))),
                    !.firings = Append(@, Firing(symbol, alert_type, threshold,
                                                 now_sec, "raised")),
                    !.raised  = TRUE]
        ELSE [entered EXCEPT
                    !.last_alert_at = SetLastAt(@, key, now_sec),
                    !.alerts  = Append(@, AlertRow(alert_type, threshold, symbol, stats)),
                    !.calls   = Append(Append(@,
                                    Call("insert_alert",
                                         AlertRow(alert_type, threshold, symbol, stats))),
                                    Call("broadcast",
                                         AlertPayload(alert_type, threshold, symbol, stats))),
                    !.sent_alerts = Append(@, AlertPayload(alert_type, threshold, symbol, stats)),
                    !.firings = Append(@, Firing(symbol, alert_type, threshold,
                                                 now_sec, "emitted"))]

\* the body of the loop of _check_alerts for one threshold: two independent ifs
CheckThreshold(m, threshold, symbol, stats, now_sec) ==
    LET afterDrop ==
            IF DropFires(stats, threshold)
                THEN EmitAlert(m, "rapid_drop", threshold, symbol, stats, now_sec)
                ELSE m
    IN  IF RiseFires(stats, threshold)
            THEN EmitAlert(afterDrop, "rapid_rebound", threshold, symbol, stats, now_sec)
            ELSE afterDrop

RECURSIVE CheckAlertsFrom(_, _, _, _, _)
CheckAlertsFrom(m, i, symbol, stats, now_sec) ==
    IF i > Len(alert_thresholds) THEN m
    ELSE CheckAlertsFrom(CheckThreshold(m, alert_thresholds[i], symbol, stats, now_sec),
                         i + 1, symbol, stats, now_sec)

\* the thresholds taken in reverse of the configured order
CheckAlertsReversed(m, symbol, stats, now_sec) ==
    CheckThreshold(CheckThreshold(m, alert_thresholds[2], symbol, stats, now_sec),
                   alert_thresholds[1], symbol, stats, now_sec)

\* for threshold in self.alert_thresholds: ...
CheckAlerts(m, symbol, stats, now_sec) == CheckAlertsFrom(m, 1, symbol, stats, now_sec)

---------------------------------------------------------------------------
(* The Store's tables *)

StoreOps == {"insert_kline", "insert_window_stats", "insert_alert"}

\* a plain INSERT into a klines table without key
InsertKlineAdds(rows, k) == rows \cup {k}

\* INSERT OR REPLACE INTO klines, PRIMARY KEY (symbol, open_time)
InsertKline(rows, k) ==
    { r \in rows : ~ (r.symbol = k.symbol /\ r.open_time = k.open_time) } \cup {k}

\* the arguments handle_closed_kline hands to Store.insert_window_stats
WindowStatsRow(symbol, stats) ==
    [ symbol       |-> symbol,
      window_end   |-> stats.window_end,
      change_close |-> stats.change_close,
      change_low   |-> stats.change_low,
      change_high  |-> stats.change_high,
      length       |-> stats.length ]

\* INSERT OR REPLACE INTO window_stats, PRIMARY KEY (symbol, window_end)
InsertWindowStats(rows, row) ==
    { r \in rows : ~ (r.symbol = row.symbol /\ r.window_end = row.window_end) } \cup {row}

---------------------------------------------------------------------------
(* BroadcastHub *)

\* the client connections of the model
Sinks == {"ws1", "ws2"}

\* one pass that stops at the first sink whose send raises, in the order ws1, ws2
BroadcastAbortsOnFailure(hub, payload) ==
    IF hub.clients = {} THEN hub
    ELSE LET reached == IF "ws1" \in hub.clients \cap broken THEN {"ws1"} ELSE hub.clients
             stale   == reached \cap broken
         IN  [ clients   |-> hub.clients \ stale,
               delivered |-> [c \in Sinks |->
                                IF c \in reached \ broken
                                    THEN Append(hub.delivered[c], payload)
                                    ELSE hub.delivered[c]],
               passes    |-> Append(hub.passes,
                                [payload |-> payload, targets |-> hub.clients,
                                 stale |-> stale]) ]

\* BroadcastHub.broadcast on the hub state hub = [clients, delivered, passes]:
\* nothing when there is no client; else ws.send to every member of
\* list(self.clients), collecting the sinks whose send raised, discarded after
\* the loop
Broadcast(hub, payload) ==
    IF hub.clients = {} THEN hub
    ELSE LET targets == hub.clients
             stale   == targets \cap broken
         IN  [ clients   |-> targets \ stale,
               delivered |-> [c \in Sinks |->
                                IF c \in targets \ broken
                                    THEN Append(hub.delivered[c], payload)
                                    ELSE hub.delivered[c]],
               passes    |-> Append(hub.passes,
                                [payload |-> payload, targets |-> targets,
                                 stale |-> stale]) ]

\* the broadcasts among the calls of one handler call, in order
RECURSIVE BroadcastAll(_, _, _)
BroadcastAll(hub, calls, i) ==
    IF i > Len(calls) THEN hub
    ELSE BroadcastAll(IF calls[i].call = "broadcast"
                          THEN Broadcast(hub, calls[i].arg)
                          ELSE hub,
                      calls, i + 1)

\* the hub after the broadcasts of one handler call
HubBroadcasts(calls) ==
    LET hub == BroadcastAll([clients |-> clients, delivered |-> delivered,
                             passes |-> passes], calls, 1)
    IN  /\ clients' = hub.clients
        /\ delivered' = hub.delivered
        /\ passes' = hub.passes
        /\ UNCHANGED <<broken, conn, sending>>

---------------------------------------------------------------------------
(* MarketMonitor.__init__ *)

Init ==
    /\ windows = [s \in Symbols |-> << >>]
    /\ today_key_by_tz = [tz \in DOMAIN timezone_keys |-> [s \in Symbols |-> NoneVal]]
    /\ today_open_by_tz = [tz \in DOMAIN timezone_keys |-> [s \in Symbols |-> NoneVal]]
    /\ last_alert_at = << >>
    /\ last_price = [s \in Symbols |-> NoneVal]
    /\ store = [klines |-> {}, window_stats |-> {}, alerts |-> << >>]
    /\ failing = {}
    /\ now = StartTime
    /\ fed = [s \in Symbols |-> << >>]
    /\ firings = << >>
    /\ sent_alerts = << >>
    /\ last_call = [kline |-> NoneVal, stats |-> NoneVal, calls |-> << >>, raised |-> FALSE]
    /\ seen_price = [s \in Symbols |-> NoneVal]
    /\ clients = {}
    /\ delivered = [c \in Sinks |-> << >>]
    /\ broken = {}
    /\ conn = [c \in Sinks |-> [pc |-> "new", cutoff_ms |-> 0, rows |-> << >>]]
    /\ passes = << >>
    /\ sending = [pc |-> "idle", payload |-> NoneVal, todo |-> << >>, targets |-> {},
                  stale |-> {}, attempted |-> {}]
    /\ inbox = << >>
    /\ handling = NoneVal
    /\ arrived = 0
    /\ trace = << >>
    /\ link = [pc |-> "connecting", slept |-> 0, closes |-> 0]
    /\ worker = [pc |-> "pruning", cutoff_ms |-> NoneVal, outcome |-> "none", sleep |-> 0,
                 removed |-> 0]
    /\ starter = [ pc |-> [c \in Callers |-> "idle"],
                   lock |-> "free", task |-> 0, thread |-> 0, runs |-> << >>,
                   calls |-> 0, refused |-> 0 ]
    /\ emitters = [ task |-> [t \in EmitTasks |-> [pc |-> "idle"]], passed |-> << >>,
                    calls |-> 0 ]

---------------------------------------------------------------------------
(* MarketMonitor.handle_closed_kline *)

\* the running state _check_alerts starts from, after insert_window_stats
AlertsStart(symbol, kline, stats) ==
    [ last_alert_at |-> last_alert_at,
      alerts        |-> store.alerts,
      calls         |-> << Call("insert_kline", kline),
                           Call("insert_window_stats", WindowStatsRow(symbol, stats)) >>,
      firings       |-> firings,
      sent_alerts   |-> sent_alerts,
      raised        |-> FALSE ]

\* insert_kline raises: nothing after it runs
KlineInsertRaises(kline) ==
    /\ "insert_kline" \in failing
    /\ last_call' = [kline |-> Some(kline), stats |-> NoneVal,
                     calls |-> << Call("insert_kline", kline) >>, raised |-> TRUE]
    /\ UNCHANGED <<windows, today_key_by_tz, today_open_by_tz, last_alert_at, last_price,
                   store, failing, now, fed, firings, sent_alerts, seen_price>>
    /\ UNCHANGED hubVars

\* insert_kline returned: daily opens, window append, statistics, and, when
\* there are statistics, insert_window_stats and _check_alerts; _publish_price
\* last, unless a Store call raised
KlineInserted(kline) ==
    LET sym    == kline.symbol
        window == WindowAppend(windows[sym], kline)
        opens  == UpdateDailyOpen(today_key_by_tz, today_open_by_tz, kline)
        stats  == ComputeWindowStats(window)
        price  == Call("broadcast", PricePayload(sym, kline.close, kline.close_time, opens))
    IN  /\ "insert_kline" \notin failing
        /\ today_key_by_tz' = UpdateDailyKey(today_key_by_tz, kline)
        /\ today_open_by_tz' = opens
        /\ windows' = [windows EXCEPT ![sym] = window]
        /\ fed' = [fed EXCEPT ![sym] = Append(@, kline)]
        /\ UNCHANGED <<failing, now>>
        /\ seen_price' = [seen_price EXCEPT ![sym] = Some(kline.close)]
        /\ IF IsNone(stats)
              THEN /\ store' = [store EXCEPT !.klines = InsertKline(@, kline)]
                   /\ last_price' = [last_price EXCEPT ![sym] = Some(kline.close)]
                   /\ last_call' = [kline |-> Some(kline), stats |-> NoneVal,
                                    calls |-> << Call("insert_kline", kline), price >>,
                                    raised |-> FALSE]
                   /\ UNCHANGED <<last_alert_at, firings, sent_alerts>>
           ELSE IF "insert_window_stats" \in failing
              THEN /\ store' = [store EXCEPT !.klines = InsertKline(@, kline)]
                   /\ last_call' = [kline |-> Some(kline), stats |-> stats,
                                    calls |-> << Call("insert_kline", kline),
                                                 Call("insert_window_stats",
                                                      WindowStatsRow(sym, Get(stats))) >>,
                                    raised |-> TRUE]
                   /\ UNCHANGED <<last_alert_at, last_price, firings, sent_alerts>>
           ELSE LET m == CheckAlerts(AlertsStart(sym, kline, Get(stats)),
                                     sym, Get(stats), now)
                IN  /\ store' = [ klines       |-> InsertKline(store.klines, kline),
                                  window_stats |-> InsertWindowStats(store.window_stats,
                                                      WindowStatsRow(sym, Get(stats))),
                                  alerts       |-> m.alerts ]
                    /\ last_alert_at' = m.last_alert_at
                    /\ firings' = m.firings
                    /\ sent_alerts' = m.sent_alerts
                    /\ last_price' = IF m.raised THEN last_price
                                     ELSE [last_price EXCEPT ![sym] = Some(kline.close)]
                    /\ last_call' = [kline |-> Some(kline), stats |-> stats,
                                     calls |-> IF m.raised THEN m.calls
                                               ELSE Append(m.calls, price),
                                     raised |-> m.raised]
        /\ HubBroadcasts(last_call'.calls)

HandleClosedKline(kline) ==
    \/ KlineInsertRaises(kline)
    \/ KlineInserted(kline)

---------------------------------------------------------------------------
(* MarketMonitor.handle_stream_message, the "kline" event *)

\* an in-progress kline taken for a closed one
InProgressNever(msg) == FALSE

\* not k.get("x")
InProgress(msg) == ~ msg.x

\* k.x false: an in-progress kline is ignored; an untracked symbol is dropped
KlineMessage(msg) ==
    IF InProgress(msg) \/ msg.s \notin DOMAIN windows
        THEN UNCHANGED <<monitorVars, hubVars>>
        ELSE /\ TotalFed < MaxKlines
             /\ HandleClosedKline(ClosedKline(msg.s, Len(fed[msg.s]), msg.k))

---------------------------------------------------------------------------
(* The environment: the wall clock, and the Store's availability *)

Tick ==
    /\ now < StartTime + MaxTicks * TickSeconds
    /\ now' = now + TickSeconds
    /\ UNCHANGED <<windows, today_key_by_tz, today_open_by_tz, last_alert_at, last_price,
                   store, failing, fed, firings, sent_alerts, last_call, seen_price>>
    /\ UNCHANGED <<hubVars, listenerVars, taskVars>>

StoreFault ==
    /\ \E ops \in SUBSET StoreOps : ops # failing /\ failing' = ops
    /\ UNCHANGED <<windows, today_key_by_tz, today_open_by_tz, last_alert_at, last_price,
                   store, now, fed, firings, sent_alerts, last_call, seen_price>>
    /\ UNCHANGED <<hubVars, listenerVars, taskVars>>

\* the listener taking one kline event and awaiting its handler, as one step
Feed ==
    /\ \E msg \in KlineMessages : KlineMessage(msg)
    /\ UNCHANGED <<listenerVars, taskVars>>

\* the monitor fed by the stream, with a Store whose writes succeed
Next ==
    \/ Feed
    \/ Tick

Spec == Init /\ [][Next]_vars

\* the same with Store operations that start and stop raising
NextFault ==
    \/ Feed
    \/ Tick
    \/ StoreFault

SpecFault == Init /\ [][NextFault]_vars

\* Store.insert_alert starts or stops raising (the alerts table locked or
\* unreachable) while the other writes succeed
InsertAlertFault ==
    /\ failing' = IF "insert_alert" \in failing THEN {} ELSE {"insert_alert"}
    /\ UNCHANGED <<windows, today_key_by_tz, today_open_by_tz, last_alert_at, last_price,
                   store, now, fed, firings, sent_alerts, last_call, seen_price>>
    /\ UNCHANGED <<hubVars, listenerVars, taskVars>>

\* the monitor fed by the stream while insert_alert fails now and then
NextAlertFault ==
    \/ Feed
    \/ Tick
    \/ InsertAlertFault

SpecAlertFault == Init /\ [][NextAlertFault]_vars

\* candles whose opens differ from one minute to the next: flat at 1000, and one
\* that opens at 1010, spikes to 1021, dips to 1000 and closes at 1010
SteppedCandles ==
    { FlatCandle, [open |-> 1010, high |-> 1021, low |-> 1000, close |-> 1010] }

\* the listener taking one closed kline of a tracked symbol
SteppedFeed ==
    /\ \E s \in Symbols, c \in SteppedCandles : KlineMessage([s |-> s, x |-> TRUE, k |-> c])
    /\ UNCHANGED <<listenerVars, taskVars>>

\* the monitor fed closed klines across midnight UTC, with Store operations that
\* start and stop raising
NextStepped ==
    \/ SteppedFeed
    \/ Tick
    \/ StoreFault

SpecStepped == Init /\ [][NextStepped]_vars

\* closed klines whose open_time is whatever the message carries: the minute
\* before midnight UTC or the minute after it, in any order
ReplayFeed ==
    /\ TotalFed < MaxKlines
    /\ \E s \in Symbols, i \in 0..1, c \in SteppedCandles :
          HandleClosedKline(ClosedKline(s, i, c))
    /\ UNCHANGED <<listenerVars, taskVars>>

\* the monitor fed klines that may arrive out of order
NextReplay ==
    \/ ReplayFeed
    \/ Tick

SpecReplay == Init /\ [][NextReplay]_vars

---------------------------------------------------------------------------
(* MarketMonitor.handle_stream_message, the "24hrMiniTicker" event;
   MarketMonitor.handle_price_tick, MarketMonitor._publish_price *)

\* int(data.get("E", now_ms())): the event time, the wall clock when E is absent
EventTs(msg) == IF IsNone(msg.E) THEN now * 1000 ELSE Get(msg.E)

\* a price tick that also takes the price for the day's open
HandlePriceTickSetsOpen(symbol, price, ts_ms) ==
    /\ last_price' = [last_price EXCEPT ![symbol] = Some(price)]
    /\ today_open_by_tz' = [tz \in DOMAIN timezone_keys |->
                               [today_open_by_tz[tz] EXCEPT ![symbol] = Some(price)]]
    /\ last_call' = [kline |-> NoneVal, stats |-> NoneVal,
                     calls |-> << Call("broadcast",
                                     PricePayload(symbol, price, ts_ms, today_open_by_tz')) >>,
                     raised |-> FALSE]
    /\ HubBroadcasts(last_call'.calls)
    /\ UNCHANGED <<windows, today_key_by_tz, last_alert_at,
                   store, failing, now, fed, firings, sent_alerts>>

\* handle_price_tick: last_price is set and _publish_price broadcasts the payload
HandlePriceTick(symbol, price, ts_ms) ==
    /\ last_price' = [last_price EXCEPT ![symbol] = Some(price)]
    /\ last_call' = [kline |-> NoneVal, stats |-> NoneVal,
                     calls |-> << Call("broadcast",
                                     PricePayload(symbol, price, ts_ms, today_open_by_tz)) >>,
                     raised |-> FALSE]
    /\ HubBroadcasts(last_call'.calls)
    /\ UNCHANGED <<windows, today_key_by_tz, today_open_by_tz, last_alert_at,
                   store, failing, now, fed, firings, sent_alerts>>

\* an untracked symbol is dropped; else the tick is handled
TickerMessage(msg) ==
    IF msg.s \notin DOMAIN last_price
        THEN UNCHANGED <<monitorVars, hubVars>>
        ELSE /\ HandlePriceTick(msg.s, msg.c, EventTs(msg))
             /\ seen_price' = [seen_price EXCEPT ![msg.s] = Some(msg.c)]

\* MarketMonitor.handle_stream_message: the event type selects the handler;
\* any other event is ignored
HandleStreamMessage(msg) ==
    IF msg.e = "kline" THEN KlineMessage(msg)
    ELSE IF msg.e = "24hrMiniTicker" THEN TickerMessage(msg)
    ELSE UNCHANGED <<monitorVars, hubVars>>

---------------------------------------------------------------------------
(* binance_listener: async for message in ws: await handle_stream_message *)

\* the most upstream messages of one run, and the most that wait unread
MaxArrivals == 4
MaxInbox == 2

KlineEvent(s, x, c) == [e |-> "kline", s |-> s, x |-> x, k |-> c]

TickerEvent(s, c, E) == [e |-> "24hrMiniTicker", s |-> s, c |-> c, E |-> E]

\* the events of the upstream connection: closed klines, an in-progress kline,
\* a closed kline of an untracked symbol, mini-tickers of tracked symbols with
\* and without an event time, and a mini-ticker of an untracked symbol
ListenerMessages ==
    { KlineEvent("btcusdt", TRUE, FlatCandle),
      KlineEvent("btcusdt", TRUE, [open |-> 1000, high |-> 1012, low |-> 1000, close |-> 1012]),
      KlineEvent("btcusdt", TRUE, [open |-> 0, high |-> 0, low |-> 0, close |-> 0]),
      KlineEvent("ethusdt", TRUE, FlatCandle),
      KlineEvent("btcusdt", FALSE, [open |-> 1000, high |-> 1012, low |-> 1000, close |-> 1012]),
      KlineEvent(UntrackedSymbol, TRUE, FlatCandle),
      TickerEvent("btcusdt", 1012, Some(FirstOpenTime + 30000)),
      TickerEvent("ethusdt", 1000, NoneVal),
      TickerEvent(UntrackedSymbol, 1000, NoneVal) }

\* a message arrives on the connection
Arrive(msg) ==
    /\ arrived < MaxArrivals
    /\ Len(inbox) < MaxInbox
    /\ inbox' = Append(inbox, [n |-> arrived + 1, msg |-> msg])
    /\ arrived' = arrived + 1
    /\ UNCHANGED <<handling, trace, monitorVars, hubVars, taskVars>>

\* a loop that starts the next handler without awaiting the one before
ListenerNeverWaits == TRUE

\* the loop body is idle: the awaited handle_stream_message has returned
ListenerIdle == IsNone(handling)

\* async for message in ws: the loop takes the next message and calls the handler
ListenerTakes ==
    /\ inbox # << >>
    /\ ListenerIdle
    /\ handling' = Some(Head(inbox))
    /\ inbox' = Tail(inbox)
    /\ trace' = Append(trace, [ev |-> "start", n |-> Head(inbox).n, msg |-> Head(inbox).msg])
    /\ UNCHANGED <<arrived, monitorVars, hubVars, taskVars>>

\* await monitor.handle_stream_message(message) returns, its writes and
\* broadcasts done
HandlerReturns ==
    /\ ~ IsNone(handling)
    /\ HandleStreamMessage(Get(handling).msg)
    /\ handling' = NoneVal
    /\ trace' = Append(trace, [ev |-> "end", n |-> Get(handling).n, msg |-> Get(handling).msg])
    /\ UNCHANGED <<inbox, arrived, taskVars>>

ListenerArrival == \E msg \in ListenerMessages : Arrive(msg)

\* the monitor behind the listener of one upstream connection
NextListener ==
    \/ ListenerArrival
    \/ ListenerTakes
    \/ HandlerReturns

SpecListener == Init /\ [][NextListener]_vars

---------------------------------------------------------------------------
(* Store.fetch_recent_alerts *)

\* RETENTION_SECONDS and RECENT_ALERT_LIMIT, scaled to the runs of the model
retention_seconds == 100
recent_limit == 3

\* the query without its WHERE clause
RetainedAlways(alerts, i, cutoff_ms) == TRUE

\* is row i of the table at or after the cutoff
Retained(alerts, i, cutoff_ms) == alerts[i].ts >= cutoff_ms

\* SELECT ... FROM alerts WHERE ts >= cutoff ORDER BY ts DESC LIMIT limit: the
\* results the query may return, rows of equal ts coming in any order
FetchAlertRows(alerts, limit, cutoff_ms) ==
    LET eligible == { i \in 1..Len(alerts) : Retained(alerts, i, cutoff_ms) }
        n        == IF Cardinality(eligible) < limit THEN Cardinality(eligible) ELSE limit
        picks    == { q \in [1..n -> eligible] :
                        /\ \A j, k \in 1..n : j < k => q[j] # q[k]
                        /\ \A j, k \in 1..n : j < k => alerts[q[j]].ts >= alerts[q[k]].ts
                        /\ \A i \in eligible :
                              (\A j \in 1..n : q[j] # i)
                                  => \A j \in 1..n : alerts[i].ts <= alerts[q[j]].ts }
    IN  { [j \in 1..n |-> alerts[q[j]]] : q \in picks }

\* SQL NULL (Python None) in an integer or real column of prices and
\* timestamps, which are never negative; in a column of ratios it is NoneVal,
\* in a text column the empty string
Null == -1

\* x or y without the fallback
OrNumberKeeps(x, y) == x

\* x or y on numbers: y when x is None or 0
OrNumber(x, y) == IF x = Null \/ x = 0 THEN y ELSE x

\* x or y on ratios: y when x is None or 0.0
OrRatio(x, y) == IF x = NoneVal THEN y ELSE IF x[1] = 0 THEN y ELSE x

\* if pct is None and reference_open: pct = (price - reference_open) / reference_open
PctOrComputed(pct, price, reference_open) ==
    IF pct = NoneVal /\ reference_open # 0
        THEN Frac(price - reference_open, reference_open)
        ELSE pct

\* the dict fetch_recent_alerts builds from a row
AlertFromRow(r) ==
    LET anchor_type  == IF r.anchor_type = ""
                            THEN (IF r.alert_type = "rapid_drop" THEN "peak" ELSE "trough")
                            ELSE r.anchor_type
        anchor_price == OrNumber(r.anchor_price,
                                 IF r.alert_type = "rapid_drop"
                                     THEN r.reference_high ELSE r.reference_low)
        anchor_ts    == OrNumber(r.anchor_ts, OrNumber(r.reference_peak_ts, r.ts))
        move         == OrRatio(r.move_from_anchor, r.drop_from_peak)
    IN  [ type           |-> "alert",
          symbol         |-> symbol_upper[r.symbol],
          alert_type     |-> r.alert_type,
          magnitude      |-> r.magnitude,
          window_minutes |-> window_size_minutes,
          ts             |-> r.ts,
          reference      |->
            [ open                  |-> r.reference_open,
              close                 |-> r.reference_close,
              low                   |-> r.reference_low,
              high                  |-> r.reference_high,
              peak_price            |-> r.reference_high,
              peak_ts               |-> OrNumber(r.reference_peak_ts, r.ts),
              current_price         |-> r.reference_close,
              current_ts            |-> OrNumber(r.reference_current_ts, r.ts),
              drop_from_peak        |-> r.drop_from_peak,
              anchor_type           |-> anchor_type,
              anchor_price          |-> anchor_price,
              anchor_ts             |-> anchor_ts,
              anchor_pct_from_open  |-> PctOrComputed(r.anchor_pct_from_open, anchor_price,
                                                      r.reference_open),
              current_pct_from_open |-> PctOrComputed(r.current_pct_from_open,
                                                      r.reference_close, r.reference_open),
              move_from_anchor      |-> move ] ]

---------------------------------------------------------------------------
(* start_client_ws_server.handler: one task per client connection *)

\* await broadcaster.register(ws), then fetch_recent_alerts computes its cutoff
\* and hands the query to a thread: the handler is suspended
Register(c) ==
    /\ conn[c].pc = "new"
    /\ clients' = clients \cup {c}
    /\ conn' = [conn EXCEPT ![c] = [pc |-> "fetching",
                                    cutoff_ms |-> (now - retention_seconds) * 1000,
                                    rows |-> << >>]]
    /\ UNCHANGED <<delivered, broken, passes, sending, monitorVars, listenerVars, taskVars>>

\* the thread runs the query on the alerts table as it is then
FetchRecentAlerts(c) ==
    /\ conn[c].pc = "fetching"
    /\ \E rows \in FetchAlertRows(store.alerts, recent_limit, conn[c].cutoff_ms) :
          conn' = [conn EXCEPT ![c] = [@ EXCEPT !.pc = "fetched", !.rows = rows]]
    /\ UNCHANGED <<clients, delivered, broken, passes, sending, monitorVars, listenerVars, taskVars>>

\* the message send_snapshot sends: monitor.snapshot() as it is now, and the
\* alerts fetched
SnapshotMessage(rows) ==
    [ type   |-> "snapshot",
      data   |-> Snapshot,
      alerts |-> [i \in 1..Len(rows) |-> AlertFromRow(rows[i])] ]

\* the handler resumes: broadcaster.send_snapshot(ws, monitor.snapshot(), alerts);
\* a send that raises is logged and nothing is delivered
SendSnapshot(c) ==
    /\ conn[c].pc = "fetched"
    /\ delivered' = IF c \in broken THEN delivered
                    ELSE [delivered EXCEPT ![c] = Append(@, SnapshotMessage(conn[c].rows))]
    /\ conn' = [conn EXCEPT ![c] = [@ EXCEPT !.pc = "streaming"]]
    /\ UNCHANGED <<clients, broken, passes, sending, monitorVars, listenerVars, taskVars>>

\* the client's connection closes: every later ws.send to it raises
SinkCloses(c) ==
    /\ conn[c].pc \in {"fetching", "fetched", "streaming"}
    /\ c \notin broken
    /\ broken' = broken \cup {c}
    /\ UNCHANGED <<clients, delivered, conn, passes, sending, monitorVars, listenerVars, taskVars>>

\* async for _ in ws ends with the connection: finally: broadcaster.unregister(ws)
Unregister(c) ==
    /\ conn[c].pc = "streaming"
    /\ c \in broken
    /\ clients' = clients \ {c}
    /\ conn' = [conn EXCEPT ![c] = [@ EXCEPT !.pc = "closed"]]
    /\ UNCHANGED <<delivered, broken, passes, sending, monitorVars, listenerVars, taskVars>>

\* the most upstream messages of a run with clients
MaxHubMessages == 2

\* the upstream events of the runs with clients
HubMessages ==
    { KlineEvent("btcusdt", TRUE, FlatCandle),
      KlineEvent("btcusdt", TRUE, [open |-> 1000, high |-> 1012, low |-> 1000, close |-> 1012]),
      TickerEvent("btcusdt", 1012, NoneVal) }

\* the listener taking one event and awaiting its handler, as one step
HubFeed ==
    /\ arrived < MaxHubMessages
    /\ \E msg \in HubMessages : HandleStreamMessage(msg)
    /\ arrived' = arrived + 1
    /\ UNCHANGED <<inbox, handling, trace, taskVars>>

ClientConnects == \E c \in Sinks : Register(c)
ClientFetches == \E c \in Sinks : FetchRecentAlerts(c)
ClientSnapshot == \E c \in Sinks : SendSnapshot(c)
ClientCloses == \E c \in Sinks : SinkCloses(c)
ClientLeaves == \E c \in Sinks : Unregister(c)

\* the monitor, the hub and the client connections
NextHub ==
    \/ HubFeed
    \/ ClientConnects
    \/ ClientFetches
    \/ ClientSnapshot
    \/ ClientCloses
    \/ ClientLeaves

SpecHub == Init /\ [][NextHub]_vars

\* the most passes of one run of the stepwise broadcast
MaxPassCount == 2

\* the payload of the n-th pass: prices of btcusdt that differ from pass to pass
PassPayload(n) == PricePayload("btcusdt", 1000 + 12 * n, now * 1000, today_open_by_tz)

\* list(self.clients): the members of the set in some order
ListOf(set) ==
    { q \in [1..Cardinality(set) -> set] :
        \A i, j \in 1..Cardinality(set) : i # j => q[i] # q[j] }

\* a removal that rebuilds the set from the copy: self.clients = copy - stale
DiscardStaleFromCopy(set, targets, stale) == targets \ stale

\* for ws in stale: self.clients.discard(ws)
DiscardStale(set, targets, stale) == set \ stale

\* broadcast is entered with a non-empty set: the copy is taken, stale is empty
PassStarts ==
    /\ sending.pc = "idle"
    /\ Len(passes) < MaxPassCount
    /\ clients # {}
    /\ \E todo \in ListOf(clients) :
          sending' = [pc |-> "sending", payload |-> Some(PassPayload(Len(passes))),
                      todo |-> todo, targets |-> clients, stale |-> {}, attempted |-> {}]
    /\ UNCHANGED <<clients, delivered, broken, conn, passes>>
    /\ UNCHANGED <<monitorVars, listenerVars, taskVars>>

\* await ws.send(msg) for the next sink of the copy returns or raises
PassSends ==
    /\ sending.pc = "sending"
    /\ sending.todo # << >>
    /\ LET ws == Head(sending.todo)
       IN  /\ delivered' = IF ws \in broken THEN delivered
                           ELSE [delivered EXCEPT ![ws] = Append(@, Get(sending.payload))]
           /\ sending' = [sending EXCEPT !.todo = Tail(@),
                                         !.attempted = @ \cup {ws},
                                         !.stale = IF ws \in broken THEN @ \cup {ws} ELSE @]
    /\ UNCHANGED <<clients, broken, conn, passes>>
    /\ UNCHANGED <<monitorVars, listenerVars, taskVars>>

\* the loop over the copy is done: the stale sinks are discarded, broadcast returns
PassEnds ==
    /\ sending.pc = "sending"
    /\ sending.todo = << >>
    /\ clients' = DiscardStale(clients, sending.targets, sending.stale)
    /\ passes' = Append(passes, [payload |-> Get(sending.payload),
                                 targets |-> sending.targets, stale |-> sending.stale])
    /\ sending' = [pc |-> "idle", payload |-> NoneVal, todo |-> << >>, targets |-> {},
                   stale |-> {}, attempted |-> {}]
    /\ UNCHANGED <<delivered, broken, conn>>
    /\ UNCHANGED <<monitorVars, listenerVars, taskVars>>

\* broadcast, send by send, among the connection handlers of the clients
NextPass ==
    \/ PassStarts
    \/ PassSends
    \/ PassEnds
    \/ ClientConnects
    \/ ClientFetches
    \/ ClientSnapshot
    \/ ClientCloses
    \/ ClientLeaves

SpecPass == Init /\ [][NextPass]_vars

\* the most klines of a run with one client and an advancing clock
MaxRecentKlines == 3

\* the closed klines of those runs: flat, rising 1.2%, rising 0.6%
RecentMessages ==
    { KlineEvent("btcusdt", TRUE, FlatCandle),
      KlineEvent("btcusdt", TRUE, [open |-> 1000, high |-> 1012, low |-> 1000, close |-> 1012]),
      KlineEvent("btcusdt", TRUE, [open |-> 1000, high |-> 1006, low |-> 1000, close |-> 1006]) }

RecentFeed ==
    /\ arrived < MaxRecentKlines
    /\ \E msg \in RecentMessages : HandleStreamMessage(msg)
    /\ arrived' = arrived + 1
    /\ UNCHANGED <<inbox, handling, trace, taskVars>>

\* the one client of those runs
FirstSink == "ws1"

FirstConnects == Register(FirstSink)
FirstFetches == FetchRecentAlerts(FirstSink)
FirstSnapshot == SendSnapshot(FirstSink)

\* the monitor and one connecting client, over a clock that passes the
\* retention horizon of the first alerts
NextRecent ==
    \/ RecentFeed
    \/ Tick
    \/ FirstConnects
    \/ FirstFetches
    \/ FirstSnapshot

SpecRecent == Init /\ [][NextRecent]_vars

---------------------------------------------------------------------------
(* src/crypto_monitor.py: the single-file monitor.  Its handle_stream_message
   does not test whether the symbol is tracked; the rest of its MarketMonitor is
   the code above. *)

\* a closed kline of a symbol without window: insert_kline writes the row, then
\* _update_daily_open raises KeyError on today_key_by_tz[tz_key][kline.symbol]
MonolithUntrackedKline(kline) ==
    /\ store' = [store EXCEPT !.klines = InsertKline(@, kline)]
    /\ last_call' = [kline |-> Some(kline), stats |-> NoneVal,
                     calls |-> << Call("insert_kline", kline) >>, raised |-> TRUE]
    /\ UNCHANGED <<windows, today_key_by_tz, today_open_by_tz, last_alert_at, last_price,
                   failing, now, fed, firings, sent_alerts, seen_price>>
    /\ UNCHANGED hubVars

\* a mini-ticker of a symbol without last_price entry: handle_price_tick adds
\* the entry and _publish_price broadcasts a payload without day opens
MonolithUntrackedTick(symbol, price, ts_ms) ==
    /\ last_price' = (symbol :> Some(price)) @@ last_price
    /\ last_call' = [kline |-> NoneVal, stats |-> NoneVal,
                     calls |-> << Call("broadcast",
                                     PricePayload(symbol, price, ts_ms, today_open_by_tz)) >>,
                     raised |-> FALSE]
    /\ HubBroadcasts(last_call'.calls)
    /\ UNCHANGED <<windows, today_key_by_tz, today_open_by_tz, last_alert_at,
                   store, failing, now, fed, firings, sent_alerts, seen_price>>

\* handle_stream_message of src/crypto_monitor.py
MonolithHandleStreamMessage(msg) ==
    IF msg.e = "kline"
        THEN IF InProgress(msg)
                THEN UNCHANGED <<monitorVars, hubVars>>
             ELSE IF msg.s \in DOMAIN windows
                THEN /\ TotalFed < MaxKlines
                     /\ HandleClosedKline(ClosedKline(msg.s, Len(fed[msg.s]), msg.k))
             ELSE MonolithUntrackedKline(
                      [ symbol     |-> msg.s,
                        open_time  |-> FirstOpenTime,
                        close_time |-> FirstOpenTime + 59999,
                        open       |-> msg.k.open,
                        high       |-> msg.k.high,
                        low        |-> msg.k.low,
                        close      |-> msg.k.close ])
    ELSE IF msg.e = "24hrMiniTicker"
        THEN IF msg.s \in Symbols
                THEN /\ HandlePriceTick(msg.s, msg.c, EventTs(msg))
                     /\ seen_price' = [seen_price EXCEPT ![msg.s] = Some(msg.c)]
                ELSE MonolithUntrackedTick(msg.s, msg.c, EventTs(msg))
    ELSE UNCHANGED <<monitorVars, hubVars>>

\* the handler raised: a closed kline of an untracked symbol
MonolithRaises(msg) == msg.e = "kline" /\ ~ InProgress(msg) /\ msg.s \notin DOMAIN windows

\* await monitor.handle_stream_message(message) returns or raises; an exception
\* leaves the async-for loop and the connection, with its unread messages, for
\* a new one
MonolithHandlerReturns ==
    /\ ~ IsNone(handling)
    /\ MonolithHandleStreamMessage(Get(handling).msg)
    /\ handling' = NoneVal
    /\ trace' = Append(trace, [ev |-> "end", n |-> Get(handling).n, msg |-> Get(handling).msg])
    /\ inbox' = IF MonolithRaises(Get(handling).msg) THEN << >> ELSE inbox
    /\ UNCHANGED <<arrived, taskVars>>

NextMonolith ==
    \/ ListenerArrival
    \/ ListenerTakes
    \/ MonolithHandlerReturns

SpecMonolith == Init /\ [][NextMonolith]_vars

---------------------------------------------------------------------------
(* binance_listener: the reconnect loop around the connection.  link.pc is
   "connecting" inside websockets.connect, "connected" inside the async-for
   loop and "sleeping" inside asyncio.sleep(backoff_sec); link.slept counts the
   seconds of the sleep and link.closes the connections that ended without an
   exception.  The specifications above follow the messages of one
   open connection and do not read link. *)

backoff_sec == 3

\* the most upstream messages of a run with reconnects
MaxLinkArrivals == 3

\* the texts the connection delivers.  form says what json.loads and the
\* conversions int(k["t"]), float(k["c"]), ... do with the text: "ok",
\* "undecodable" (json.loads raises), "missing_field" (KeyError, or float(None)
\* for a mini-ticker) and "non_numeric" (ValueError)
LinkMessages ==
    { [form |-> "ok", e |-> "kline", s |-> "btcusdt", x |-> TRUE, k |-> FlatCandle],
      [form |-> "ok", e |-> "kline", s |-> "btcusdt", x |-> TRUE,
       k |-> [open |-> 1000, high |-> 1012, low |-> 1000, close |-> 1012]],
      [form |-> "ok", e |-> "24hrMiniTicker", s |-> "ethusdt", c |-> 1000, E |-> NoneVal],
      [form |-> "ok", e |-> "trade", s |-> "btcusdt"],
      [form |-> "undecodable"],
      [form |-> "missing_field", e |-> "kline", s |-> "btcusdt", x |-> TRUE,
       k |-> [open |-> 1000, high |-> 1000, low |-> 1000]],
      [form |-> "non_numeric", e |-> "kline", s |-> "ethusdt", x |-> TRUE, k |-> FlatCandle] }

\* handle_stream_message raises before any effect: json.loads at its first
\* line, or the construction of ClosedKline / float(data.get("c")) once the
\* in-progress and tracked-symbol tests have passed
ParseRaises(msg) ==
    \/ msg.form = "undecodable"
    \/ /\ msg.form \in {"missing_field", "non_numeric"}
       /\ \/ msg.e = "kline" /\ ~ InProgress(msg) /\ msg.s \in DOMAIN windows
          \/ msg.e = "24hrMiniTicker" /\ msg.s \in DOMAIN last_price

\* is msg a closed kline of a tracked symbol, the one event that writes to the Store
WritesToStore(msg) == msg.e = "kline" /\ ~ InProgress(msg) /\ msg.s \in DOMAIN windows

\* a message arrives on the open connection
LinkArrive(msg) ==
    /\ link.pc = "connected"
    /\ arrived < MaxLinkArrivals
    /\ Arrive(msg)

LinkArrival == \E msg \in LinkMessages : LinkArrive(msg)

\* async for message in ws: the next message is taken
LinkTakes ==
    /\ link.pc = "connected"
    /\ ListenerTakes

\* an except clause that logs the handler's exception and stays on the connection
LinkDropsSwallowed(ev) ==
    /\ link' = link
    /\ inbox' = inbox
    /\ handling' = NoneVal
    /\ trace' = IF IsNone(handling) THEN trace
                ELSE Append(trace, [ev |-> ev, n |-> Get(handling).n, msg |-> Get(handling).msg])

\* an exception leaves the async-for loop and the async-with block: the
\* connection is closed, its unread messages are gone, and the except clause
\* starts asyncio.sleep(backoff_sec)
LinkDrops(ev) ==
    /\ link' = [link EXCEPT !.pc = "sleeping", !.slept = 0]
    /\ inbox' = << >>
    /\ handling' = NoneVal
    /\ trace' = IF IsNone(handling) THEN trace
                ELSE Append(trace, [ev |-> ev, n |-> Get(handling).n, msg |-> Get(handling).msg])

\* await monitor.handle_stream_message(message) returns or raises; nothing in
\* MarketMonitor catches, so every exception reaches the except clause of the loop
LinkHandlerReturns ==
    /\ link.pc = "connected"
    /\ ~ IsNone(handling)
    /\ LET msg == Get(handling).msg
       IN  IF ParseRaises(msg)
              THEN /\ UNCHANGED <<monitorVars, hubVars>>
                   /\ LinkDrops("raise")
           ELSE /\ HandleStreamMessage(msg)
                /\ IF WritesToStore(msg) /\ last_call'.raised
                      THEN LinkDrops("raise")
                      ELSE /\ handling' = NoneVal
                           /\ trace' = Append(trace, [ev |-> "end", n |-> Get(handling).n,
                                                      msg |-> msg])
                           /\ UNCHANGED <<inbox, link>>
    /\ UNCHANGED <<arrived, worker, starter, emitters>>

\* websockets.connect returns the connection
ConnectOpens ==
    /\ link.pc = "connecting"
    /\ link' = [link EXCEPT !.pc = "connected"]
    /\ UNCHANGED <<inbox, handling, arrived, trace, worker, starter, emitters, monitorVars, hubVars>>

\* websockets.connect raises: refused, timed out, handshake rejected
ConnectFails ==
    /\ link.pc = "connecting"
    /\ LinkDrops("raise")
    /\ UNCHANGED <<arrived, worker, starter, emitters, monitorVars, hubVars>>

\* the iteration raises ConnectionClosedError: reset, protocol error, ping timeout
LinkFails ==
    /\ link.pc = "connected"
    /\ ListenerIdle
    /\ LinkDrops("raise")
    /\ UNCHANGED <<arrived, worker, starter, emitters, monitorVars, hubVars>>

\* the most clean closes the history of the connection tells apart
MaxCloses == 2

\* the history's count of clean closes: it stops counting at MaxCloses, the
\* loop itself has no counter and no limit
CountClose(n) == IF n < MaxCloses THEN n + 1 ELSE n

\* a loop whose sleep stands in a finally clause: it waits after a clean close too
LinkClosesThenSleeps ==
    /\ link.pc = "connected"
    /\ ListenerIdle
    /\ inbox = << >>
    /\ link' = [pc |-> "sleeping", slept |-> 0, closes |-> CountClose(link.closes)]
    /\ UNCHANGED <<inbox, handling, arrived, trace, worker, starter, emitters, monitorVars, hubVars>>

\* the peer closes normally: the iteration ends without exception and the
\* while loop connects again at once
LinkCloses ==
    /\ link.pc = "connected"
    /\ ListenerIdle
    /\ inbox = << >>
    /\ link' = [pc |-> "connecting", slept |-> 0, closes |-> CountClose(link.closes)]
    /\ UNCHANGED <<inbox, handling, arrived, trace, worker, starter, emitters, monitorVars, hubVars>>

\* one second of asyncio.sleep(backoff_sec) passes
SleepSecond ==
    /\ link.pc = "sleeping"
    /\ link.slept < backoff_sec
    /\ link' = [link EXCEPT !.slept = @ + 1]
    /\ UNCHANGED <<inbox, handling, arrived, trace, worker, starter, emitters, monitorVars, hubVars>>

\* a loop that does not wait before it connects again
SleepDoneAtOnce == TRUE

\* asyncio.sleep(backoff_sec) has returned
SleepDone == link.slept = backoff_sec

\* the except clause ends and while True makes the next attempt
Reconnects ==
    /\ link.pc = "sleeping"
    /\ SleepDone
    /\ link' = [link EXCEPT !.pc = "connecting", !.slept = 0]
    /\ UNCHANGED <<inbox, handling, arrived, trace, worker, starter, emitters, monitorVars, hubVars>>

\* the listener, its connection, and a Store whose writes start and stop raising
NextLink ==
    \/ LinkArrival
    \/ LinkTakes
    \/ LinkHandlerReturns
    \/ ConnectOpens
    \/ ConnectFails
    \/ LinkFails
    \/ LinkCloses
    \/ SleepSecond
    \/ Reconnects
    \/ StoreFault

SpecLink == Init /\ [][NextLink]_vars

\* the sleep returns and the loop continues: the event loop runs the task
SpecLinkFair ==
    /\ Init
    /\ [][NextLink]_vars
    /\ WF_vars(SleepSecond)
    /\ WF_vars(Reconnects)

---------------------------------------------------------------------------
(* MarketMonitor.emit_alert, the public entry with force, and its caller
   stub_generator with the statistics of build_stub_stats *)

\* the most emit_alert calls of one run
MaxEmits == 3

\* current_price * (1 + threshold + 0.001), exact for the prices used here
StubAbove(price, threshold) ==
    (price * (1000 * threshold[2] + 1000 * threshold[1] + threshold[2]))
        \div (1000 * threshold[2])

\* current_price * (1 - threshold - 0.001)
StubBelow(price, threshold) ==
    (price * (1000 * threshold[2] - 1000 * threshold[1] - threshold[2]))
        \div (1000 * threshold[2])

\* build_stub_stats
BuildStubStats(open_price, current_price, threshold, alert_type, ts_ms) ==
    LET peak_price   == IF alert_type = "rapid_drop"
                           THEN StubAbove(current_price, threshold)
                           ELSE StubAbove(current_price, <<0, 1>>)
        trough_price == IF alert_type = "rapid_drop"
                           THEN StubBelow(current_price, <<0, 1>>)
                           ELSE StubBelow(current_price, threshold)
    IN  [ window_end            |-> ts_ms,
          change_close          |-> Frac(current_price - open_price, open_price),
          change_low            |-> Frac(trough_price - open_price, open_price),
          change_high           |-> Frac(peak_price - open_price, open_price),
          length                |-> window_size_minutes,
          reference_open        |-> open_price,
          reference_close       |-> current_price,
          reference_low         |-> IF trough_price < current_price
                                       THEN trough_price ELSE current_price,
          reference_high        |-> IF peak_price > current_price
                                       THEN peak_price ELSE current_price,
          peak_price            |-> peak_price,
          peak_ts               |-> ts_ms,
          peak_pct_from_open    |-> Frac(peak_price - open_price, open_price),
          trough_price          |-> trough_price,
          trough_ts             |-> ts_ms,
          trough_pct_from_open  |-> Frac(trough_price - open_price, open_price),
          current_price         |-> current_price,
          current_ts            |-> ts_ms,
          current_pct_from_open |-> Frac(current_price - open_price, open_price),
          drop_from_peak        |-> Frac(peak_price - current_price, open_price),
          rise_from_trough      |-> Frac(current_price - trough_price, open_price) ]

\* an emit_alert that ignores force
ForceResetIgnored(map, key, force) == map

\* if force: self.last_alert_at[(symbol, alert_type, threshold)] = 0
ForceReset(map, key, force) == IF force THEN SetLastAt(map, key, 0) ELSE map

\* MarketMonitor.emit_alert(alert_type, threshold, symbol, stats, force)
EmitAlertCalled(alert_type, threshold, symbol, stats, force) ==
    LET start == [ last_alert_at |-> ForceReset(last_alert_at,
                                                << symbol, alert_type, threshold >>, force),
                   alerts        |-> store.alerts,
                   calls         |-> << Call("emit_alert",
                                             << symbol, alert_type, threshold, force >>) >>,
                   firings       |-> firings,
                   sent_alerts   |-> sent_alerts,
                   raised        |-> FALSE ]
        m     == EmitAlert(start, alert_type, threshold, symbol, stats, now)
    IN  /\ last_alert_at' = m.last_alert_at
        /\ store' = [store EXCEPT !.alerts = m.alerts]
        /\ firings' = m.firings
        /\ sent_alerts' = m.sent_alerts
        /\ last_call' = [kline |-> NoneVal, stats |-> Some(stats), calls |-> m.calls,
                         raised |-> m.raised]
        /\ HubBroadcasts(m.calls)
        /\ UNCHANGED <<windows, today_key_by_tz, today_open_by_tz, last_price, failing,
                       now, fed, seen_price>>

\* stub_generator: sym, alert_type and threshold are drawn, the statistics are
\* built for the current prices, and emit_alert is called with force=True; the
\* unforced call is the same entry with its default
EmitAlertCall ==
    /\ Len(firings) < MaxEmits
    /\ \E sym \in Symbols, alert_type \in AlertTypes,
          i \in 1..Len(alert_thresholds), force \in BOOLEAN :
          EmitAlertCalled(alert_type, alert_thresholds[i], sym,
                          BuildStubStats(1000, 1000, alert_thresholds[i], alert_type,
                                         now * 1000),
                          force)
    /\ UNCHANGED <<listenerVars, taskVars>>

\* the monitor driven through emit_alert, over an advancing clock
NextEmit ==
    \/ EmitAlertCall
    \/ Tick

SpecEmit == Init /\ [][NextEmit]_vars

---------------------------------------------------------------------------
(* The Store's write operations called directly, Store.prune_older_than and
   retention_worker *)

\* retention_worker's interval_seconds
interval_seconds == 600

\* the most rows of the alerts table in the runs of the Store alone
MaxStoreAlerts == 2

\* two timestamps one millisecond apart, the later one the first cutoff
OldMs == (StartTime - retention_seconds) * 1000 - 1
EdgeMs == (StartTime - retention_seconds) * 1000

\* the klines handed to insert_kline: two symbols, two minutes, two closes
StoreKlines ==
    { [ symbol |-> s, open_time |-> T - 59999, close_time |-> T,
        open |-> 1000, high |-> 1012, low |-> 1000, close |-> c ] :
      s \in Symbols, T \in {OldMs, EdgeMs}, c \in {1000, 1012} }

\* the rows handed to insert_window_stats
StoreWindowStats ==
    { [ symbol |-> "btcusdt", window_end |-> T, change_close |-> Frac(0, 1000),
        change_low |-> Frac(0, 1000), change_high |-> Frac(12, 1000),
        length |-> window_size_minutes ] : T \in {OldMs, EdgeMs} }

\* the rows handed to insert_alert: the rebound of a stub at either timestamp
StoreAlerts ==
    { AlertRow("rapid_rebound", alert_thresholds[1], "btcusdt",
               BuildStubStats(1000, 1000, alert_thresholds[1], "rapid_rebound", T)) :
      T \in {OldMs, EdgeMs} }

\* Store.insert_kline(k)
StoreInsertKline(k) ==
    /\ store' = [store EXCEPT !.klines = InsertKline(@, k)]
    /\ UNCHANGED <<windows, today_key_by_tz, today_open_by_tz, last_alert_at, last_price,
                   failing, now, fed, firings, sent_alerts, last_call, seen_price>>
    /\ UNCHANGED <<hubVars, listenerVars, taskVars>>

\* Store.insert_window_stats(...)
StoreInsertWindowStats(row) ==
    /\ store' = [store EXCEPT !.window_stats = InsertWindowStats(@, row)]
    /\ UNCHANGED <<windows, today_key_by_tz, today_open_by_tz, last_alert_at, last_price,
                   failing, now, fed, firings, sent_alerts, last_call, seen_price>>
    /\ UNCHANGED <<hubVars, listenerVars, taskVars>>

\* Store.insert_alert(...): a plain INSERT, the table has no key but its id
StoreInsertAlert(row) ==
    /\ Len(store.alerts) < MaxStoreAlerts
    /\ store' = [store EXCEPT !.alerts = Append(@, row)]
    /\ UNCHANGED <<windows, today_key_by_tz, today_open_by_tz, last_alert_at, last_price,
                   failing, now, fed, firings, sent_alerts, last_call, seen_price>>
    /\ UNCHANGED <<hubVars, listenerVars, taskVars>>

\* the rows of a table that are in keep, in order
RECURSIVE SelectRows(_, _)
SelectRows(rows, keep) ==
    IF rows = << >> THEN << >>
    ELSE IF Head(rows) \in keep THEN << Head(rows) >> \o SelectRows(Tail(rows), keep)
    ELSE SelectRows(Tail(rows), keep)

\* a prune that also deletes the rows at the cutoff
PruneOlderOrEqual(st, cutoff_ms, done) ==
    [ klines       |-> IF done >= 1 THEN { r \in st.klines : r.close_time > cutoff_ms }
                       ELSE st.klines,
      window_stats |-> IF done >= 2 THEN { r \in st.window_stats : r.window_end > cutoff_ms }
                       ELSE st.window_stats,
      alerts       |-> IF done >= 3
                          THEN SelectRows(st.alerts,
                                   { st.alerts[i] : i \in { j \in 1..Len(st.alerts) :
                                                            st.alerts[j].ts > cutoff_ms } })
                          ELSE st.alerts ]

\* Store.prune_older_than(cutoff_ms): DELETE FROM klines WHERE close_time < ?,
\* DELETE FROM window_stats WHERE window_end < ?, DELETE FROM alerts WHERE
\* ts < ?, each committed on its own; done is the number of them that ran
\* before one raised (3: none raised)
PruneOlderThan(st, cutoff_ms, done) ==
    [ klines       |-> IF done >= 1 THEN { r \in st.klines : ~ (r.close_time < cutoff_ms) }
                       ELSE st.klines,
      window_stats |-> IF done >= 2 THEN { r \in st.window_stats : ~ (r.window_end < cutoff_ms) }
                       ELSE st.window_stats,
      alerts       |-> IF done >= 3
                          THEN SelectRows(st.alerts,
                                   { st.alerts[i] : i \in { j \in 1..Len(st.alerts) :
                                                            ~ (st.alerts[j].ts < cutoff_ms) } })
                          ELSE st.alerts ]

\* the number of rows of the three tables
RowCount(st) == Cardinality(st.klines) + Cardinality(st.window_stats) + Len(st.alerts)

\* a worker that ends when the prune raised
AfterPruneStopsOnFailure(raised) == IF raised THEN "stopped" ELSE "sleeping"

\* try: await store.prune_older_than(cutoff_ms) / except Exception: log; then
\* await asyncio.sleep(interval_seconds) in either case
AfterPrune(raised) == "sleeping"

\* one cycle of retention_worker up to its sleep
PruneCycle ==
    /\ worker.pc = "pruning"
    /\ LET cutoff_ms == (now - retention_seconds) * 1000
       IN  \E done \in 0..3 :
              /\ store' = PruneOlderThan(store, cutoff_ms, done)
              /\ worker' = [pc        |-> AfterPrune(done < 3),
                            cutoff_ms |-> Some(cutoff_ms),
                            outcome   |-> IF done < 3 THEN "failed" ELSE "pruned",
                            sleep     |-> interval_seconds,
                            removed   |-> RowCount(store) - RowCount(store')]
    /\ UNCHANGED <<windows, today_key_by_tz, today_open_by_tz, last_alert_at, last_price,
                   failing, now, fed, firings, sent_alerts, last_call, seen_price, link, starter, emitters>>
    /\ UNCHANGED <<hubVars, listenerVars>>

\* asyncio.sleep(interval_seconds) returns: while True starts the next cycle
WorkerWakes ==
    /\ worker.pc = "sleeping"
    /\ worker' = [worker EXCEPT !.pc = "pruning", !.sleep = 0]
    /\ UNCHANGED <<monitorVars, hubVars, listenerVars, link, starter, emitters>>

\* the Store under its three writers
NextStore ==
    \/ \E k \in StoreKlines : StoreInsertKline(k)
    \/ \E row \in StoreWindowStats : StoreInsertWindowStats(row)
    \/ \E row \in StoreAlerts : StoreInsertAlert(row)

SpecStore == Init /\ [][NextStore]_vars

\* the klines written while the retention worker runs: one per timestamp
RetentionKlines == { k \in StoreKlines : k.symbol = "btcusdt" /\ k.close = 1000 }

RetentionWrite ==
    \/ \E k \in RetentionKlines : StoreInsertKline(k)
    \/ \E row \in StoreWindowStats : StoreInsertWindowStats(row)
    \/ \E row \in StoreAlerts : StoreInsertAlert(row)

\* the Store under its writers and the retention worker, over an advancing clock
NextRetention ==
    \/ RetentionWrite
    \/ PruneCycle
    \/ WorkerWakes
    \/ Tick

SpecRetention == Init /\ [][NextRetention]_vars

\* the prune returns or raises, and the sleep returns
SpecRetentionFair ==
    /\ Init
    /\ [][NextRetention]_vars
    /\ WF_vars(PruneCycle)
    /\ WF_vars(WorkerWakes)

---------------------------------------------------------------------------
(* Rows of the alerts table written before _ensure_alert_columns added its
   columns, and a client that fetches them *)

\* two klines of consecutive minutes as a full window
WindowOf(c1, c2) == << ClosedKline("btcusdt", 0, c1), ClosedKline("btcusdt", 1, c2) >>

\* the rows _emit_alert writes for three windows: a rebound whose trough is at
\* the open (anchor_pct_from_open = 0), a rebound from a low of 0
\* (anchor_price = 0), and a drop whose close is back at the open
\* (current_pct_from_open = 0)
CurrentAlerts ==
    { AlertRow("rapid_rebound", alert_thresholds[1], "btcusdt",
               Get(ComputeWindowStats(WindowOf(
                   FlatCandle,
                   [open |-> 1000, high |-> 1012, low |-> 1000, close |-> 1012])))),
      AlertRow("rapid_rebound", alert_thresholds[1], "btcusdt",
               Get(ComputeWindowStats(WindowOf(
                   [open |-> 1000, high |-> 1000, low |-> 0, close |-> 1000],
                   FlatCandle)))),
      AlertRow("rapid_drop", alert_thresholds[1], "btcusdt",
               Get(ComputeWindowStats(WindowOf(
                   [open |-> 1000, high |-> 1012, low |-> 1000, close |-> 1012],
                   [open |-> 1012, high |-> 1012, low |-> 1000, close |-> 1000])))) }

\* the same alert as the schema before the added columns held it: the columns
\* ALTER TABLE alerts ADD COLUMN added are NULL
LegacyRow(r) ==
    [r EXCEPT !.reference_peak_ts     = Null,
              !.reference_current_ts  = Null,
              !.drop_from_peak        = NoneVal,
              !.anchor_type           = "",
              !.anchor_price          = Null,
              !.anchor_ts             = Null,
              !.anchor_pct_from_open  = NoneVal,
              !.current_pct_from_open = NoneVal,
              !.move_from_anchor      = NoneVal]

\* a row with only the percentage columns missing
WithoutPct(r) ==
    [r EXCEPT !.anchor_pct_from_open = NoneVal, !.current_pct_from_open = NoneVal]

LegacyAlerts ==
    { LegacyRow(r) : r \in CurrentAlerts } \cup { WithoutPct(r) : r \in CurrentAlerts }

\* the alerts table under rows of the current and of the earlier schema, and
\* one client fetching them for its snapshot
NextLegacy ==
    \/ \E row \in CurrentAlerts : StoreInsertAlert(row)
    \/ \E row \in LegacyAlerts : StoreInsertAlert(row)
    \/ Tick
    \/ FirstConnects
    \/ FirstFetches
    \/ FirstSnapshot

SpecLegacy == Init /\ [][NextLegacy]_vars

---------------------------------------------------------------------------
(* The start-once guard of run_monitor: start_monitor_background,
   ensure_monitor_started, _start_in_loop, _start_in_thread *)

\* the most calls of the two entry points in one run
MaxStartCalls == 4

\* _monitor_task and not _monitor_task.done(): a created task is pending until
\* run_monitor ends
TaskPending(st) == st.task # 0 /\ st.runs[st.task].state # "done"

\* _monitor_thread and _monitor_thread.is_alive()
ThreadAlive(st) == st.thread # 0 /\ st.runs[st.thread].state = "running"

\* the run_monitor instances that are running
Running(st) == { i \in 1..Len(st.runs) : st.runs[i].state = "running" }

\* ensure_monitor_started runs on the event loop and goes to _start_in_loop;
\* start_monitor_background goes to _start_in_loop when a loop is running, else
\* returns under the in-memory channel layer, else goes to _start_in_thread
Paths(c) == IF c = "ready" THEN {"in_loop", "in_thread", "return"} ELSE {"in_loop"}

StartCalled(c) ==
    /\ starter.pc[c] = "idle"
    /\ starter.calls < MaxStartCalls
    /\ \E path \in Paths(c) :
          starter' = [starter EXCEPT !.calls = @ + 1,
                                     !.pc[c] = IF path = "return" THEN "idle" ELSE path]
    /\ UNCHANGED <<monitorVars, hubVars, listenerVars, link, worker, emitters>>

\* a guard without mutual exclusion
LockAlwaysFree == TRUE

\* threading.Lock: free when no caller holds it
LockFree == starter.lock = "free"

\* with _monitor_lock: the caller enters when the lock is free
AcquireLock(c) ==
    /\ starter.pc[c] \in {"in_loop", "in_thread"}
    /\ LockFree
    /\ starter' = [starter EXCEPT !.lock = c,
                                  !.pc[c] = IF starter.pc[c] = "in_loop"
                                               THEN "check_loop" ELSE "check_thread"]
    /\ UNCHANGED <<monitorVars, hubVars, listenerVars, link, worker, emitters>>

\* the test of both functions: a pending task or a live thread makes the call return
CheckRunning(c) ==
    /\ starter.pc[c] \in {"check_loop", "check_thread"}
    /\ starter' = IF TaskPending(starter) \/ ThreadAlive(starter)
                     THEN [starter EXCEPT !.pc[c] = "release", !.refused = @ + 1]
                     ELSE [starter EXCEPT !.pc[c] = IF starter.pc[c] = "check_loop"
                                                       THEN "create_task"
                                                       ELSE "create_thread"]
    /\ UNCHANGED <<monitorVars, hubVars, listenerVars, link, worker, emitters>>

\* _monitor_task = loop.create_task(run_monitor())
CreateTask(c) ==
    /\ starter.pc[c] = "create_task"
    /\ starter' = [starter EXCEPT
                      !.runs = Append(@, [kind |-> "task", state |-> "running", by |-> c]),
                      !.task = Len(starter.runs) + 1,
                      !.pc[c] = "release"]
    /\ UNCHANGED <<monitorVars, hubVars, listenerVars, link, worker, emitters>>

\* _monitor_thread = threading.Thread(target=_run_monitor_thread, daemon=True)
CreateThread(c) ==
    /\ starter.pc[c] = "create_thread"
    /\ starter' = [starter EXCEPT
                      !.runs = Append(@, [kind |-> "thread", state |-> "created", by |-> c]),
                      !.thread = Len(starter.runs) + 1,
                      !.pc[c] = "start_thread"]
    /\ UNCHANGED <<monitorVars, hubVars, listenerVars, link, worker, emitters>>

\* _monitor_thread.start(): the thread is alive when start returns
StartThread(c) ==
    /\ starter.pc[c] = "start_thread"
    /\ starter' = [starter EXCEPT !.runs[starter.thread].state = "running",
                                  !.pc[c] = "release"]
    /\ UNCHANGED <<monitorVars, hubVars, listenerVars, link, worker, emitters>>

\* the with block ends
ReleaseLock(c) ==
    /\ starter.pc[c] = "release"
    /\ starter' = [starter EXCEPT !.lock = "free", !.pc[c] = "idle"]
    /\ UNCHANGED <<monitorVars, hubVars, listenerVars, link, worker, emitters>>

\* run_monitor ends: its task is done (returned, raised or cancelled), or its
\* thread is no longer alive
RunEnds ==
    /\ \E i \in Running(starter) :
          starter' = [starter EXCEPT !.runs[i].state = "done"]
    /\ UNCHANGED <<monitorVars, hubVars, listenerVars, link, worker, emitters>>

\* the callers of the guard, on the event loop and on other threads, and the
\* instances they start
NextStart ==
    \/ \E c \in Callers : StartCalled(c)
    \/ \E c \in Callers : AcquireLock(c)
    \/ \E c \in Callers : CheckRunning(c)
    \/ \E c \in Callers : CreateTask(c)
    \/ \E c \in Callers : CreateThread(c)
    \/ \E c \in Callers : StartThread(c)
    \/ \E c \in Callers : ReleaseLock(c)
    \/ RunEnds

SpecStart == Init /\ [][NextStart]_vars

---------------------------------------------------------------------------

(* MarketMonitor._emit_alert called by several tasks of one event loop: a task
   runs from one await to the next without interruption *)

\* the most calls of emit_alert / _emit_alert in one run
MaxEmitCalls == 4

\* the keys the tasks fire: both kinds for btcusdt at the first threshold
FiredKeys == { << "btcusdt", alert_type, alert_thresholds[1] >> : alert_type \in AlertTypes }

\* only the generator calls emit_alert, with force=True
Forced(t) == t = "generator"

\* up to the first await of emit_alert / _emit_alert: the reset when forced, the
\* dedup test, and the write of the key's time
EmitEnters(t, key) ==
    LET map     == ForceReset(last_alert_at, key, Forced(t))
        stats   == BuildStubStats(1000, 1000, key[3], key[2], now * 1000)
    IN  /\ emitters.task[t].pc = "idle"
        /\ emitters.calls < MaxEmitCalls
        /\ IF DedupSuppressed(now, LastAt(map, key))
              THEN /\ last_alert_at' = map
                   /\ firings' = Append(firings, Firing(key[1], key[2], key[3], now,
                                                        "suppressed"))
                   /\ emitters' = [emitters EXCEPT !.calls = @ + 1]
              ELSE /\ last_alert_at' = SetLastAt(map, key, now)
                   /\ emitters' =
                         [ task   |-> [emitters.task EXCEPT ![t] =
                                          [ pc      |-> "insert",
                                            key     |-> key,
                                            at      |-> now,
                                            row     |-> AlertRow(key[2], key[3], key[1], stats),
                                            payload |-> AlertPayload(key[2], key[3], key[1],
                                                                     stats) ]],
                           passed |-> Append(emitters.passed,
                                         [key |-> key, at |-> now, by |-> t,
                                          force |-> Forced(t)]),
                           calls  |-> emitters.calls + 1 ]
                   /\ UNCHANGED firings
        /\ UNCHANGED <<windows, today_key_by_tz, today_open_by_tz, last_price, store,
                       failing, now, fed, sent_alerts, last_call, seen_price>>
        /\ UNCHANGED <<hubVars, listenerVars, link, worker, starter>>

\* await self.store.insert_alert(...) returns
EmitInserts(t) ==
    /\ emitters.task[t].pc = "insert"
    /\ store' = [store EXCEPT !.alerts = Append(@, emitters.task[t].row)]
    /\ emitters' = [emitters EXCEPT !.task[t].pc = "broadcast"]
    /\ UNCHANGED <<windows, today_key_by_tz, today_open_by_tz, last_alert_at, last_price,
                   failing, now, fed, firings, sent_alerts, last_call, seen_price>>
    /\ UNCHANGED <<hubVars, listenerVars, link, worker, starter>>

\* await self.broadcaster.broadcast(payload) returns, and _emit_alert with it
EmitBroadcasts(t) ==
    LET e == emitters.task[t]
    IN  /\ e.pc = "broadcast"
        /\ sent_alerts' = Append(sent_alerts, e.payload)
        /\ firings' = Append(firings, Firing(e.key[1], e.key[2], e.key[3], e.at, "emitted"))
        /\ emitters' = [emitters EXCEPT !.task[t] = [pc |-> "idle"]]
        /\ HubBroadcasts(<< Call("broadcast", e.payload) >>)
        /\ UNCHANGED <<windows, today_key_by_tz, today_open_by_tz, last_alert_at, last_price,
                       store, failing, now, fed, last_call, seen_price>>
        /\ UNCHANGED <<listenerVars, link, worker, starter>>

\* the tasks interleaving at the awaits of _emit_alert, over an advancing clock
NextTasks ==
    \/ \E t \in EmitTasks, key \in FiredKeys : EmitEnters(t, key)
    \/ \E t \in EmitTasks : EmitInserts(t)
    \/ \E t \in EmitTasks : EmitBroadcasts(t)
    \/ Tick

SpecTasks == Init /\ [][NextTasks]_vars

---------------------------------------------------------------------------

(* Views of the histories used by the properties below *)

FiringKey(f) == << f.symbol, f.alert_type, f.threshold >>

RowKey(row) == << row.symbol, row.alert_type, row.magnitude >>

\* the payload carries the upper-cased symbol
PayloadIsOf(p, key) ==
    p.symbol = symbol_upper[key[1]] /\ p.alert_type = key[2] /\ p.magnitude = key[3]

AllKeys ==
    { << s, a, alert_thresholds[i] >> :
        s \in Symbols, a \in AlertTypes, i \in 1..Len(alert_thresholds) }

\* the firings of a key that ended in an emitted alert, before position j
EmittedBefore(key, j) ==
    { i \in 1..(j - 1) : FiringKey(firings[i]) = key /\ firings[i].outcome = "emitted" }

MaxOf(S) == CHOOSE x \in S : \A y \in S : y <= x

CountSeq(seq, Test(_)) == Cardinality({ i \in 1..Len(seq) : Test(seq[i]) })

\* the calls of the latest handler call, by name
CallsNamed(name) == { i \in 1..Len(last_call.calls) : last_call.calls[i].call = name }

\* C1: dedup.  A firing of a key is emitted exactly when no alert of that key
\* was emitted less than alert_dedup_seconds before it (measured from the last
\* emitted one): two firings of a key less than the window apart give one alert,
\* a firing at or after the window gives another; and every emitted firing, and
\* no other, is one row of the alerts table and one alert broadcast, in order.
C1_Dedup ==
    /\ \A j \in 1..Len(firings) :
          LET key  == FiringKey(firings[j])
              prev == EmittedBefore(key, j)
          IN  (firings[j].outcome = "emitted")
                <=> (prev = {} \/ firings[j].at - firings[MaxOf(prev)].at >= alert_dedup_seconds)
    /\ \A key \in AllKeys :
          LET emitted   == CountSeq(firings,
                              LAMBDA f : FiringKey(f) = key /\ f.outcome = "emitted")
              persisted == CountSeq(store.alerts, LAMBDA r : RowKey(r) = key)
              broadcast == CountSeq(sent_alerts, LAMBDA p : PayloadIsOf(p, key))
          IN  persisted = emitted /\ broadcast = emitted

\* a key fired three times: emitted, suppressed inside the window, emitted again
\* once the window has elapsed
C1_Witness ==
    \E i, j, k \in 1..Len(firings) :
        /\ i < j /\ j < k
        /\ FiringKey(firings[i]) = FiringKey(firings[j])
        /\ FiringKey(firings[j]) = FiringKey(firings[k])
        /\ firings[i].outcome = "emitted"
        /\ firings[j].outcome = "suppressed"
        /\ firings[k].outcome = "emitted"
        /\ firings[j].at - firings[i].at < alert_dedup_seconds
        /\ firings[k].at - firings[i].at >= alert_dedup_seconds
        /\ CountSeq(store.alerts, LAMBDA r : RowKey(r) = FiringKey(firings[i])) = 2

\* C2: while a symbol has had fewer than N closed klines, nothing was produced
\* for it: no window_stats row, no alert row, no alert broadcast, no _emit_alert
\* call; and the handler call that took its kline computed no statistics and
\* called only insert_kline and the price broadcast.
C2_NoStatsBeforeFull ==
    \A s \in Symbols :
        Len(fed[s]) < window_size_minutes =>
            /\ \A r \in store.window_stats : r.symbol # s
            /\ \A i \in 1..Len(store.alerts) : store.alerts[i].symbol # s
            /\ \A i \in 1..Len(sent_alerts) : sent_alerts[i].symbol # symbol_upper[s]
            /\ \A i \in 1..Len(firings) : firings[i].symbol # s
            /\ (~ IsNone(last_call.kline) /\ Get(last_call.kline).symbol = s) =>
                  /\ IsNone(last_call.stats)
                  /\ CallsNamed("insert_window_stats") = {}
                  /\ CallsNamed("insert_alert") = {}
                  /\ CallsNamed("_emit_alert") = {}

\* a symbol one kline short of a full window, whose kline the latest call took,
\* while the other symbol's window is full and has produced an alert
C2_Witness ==
    \E s \in Symbols :
        /\ Len(fed[s]) = window_size_minutes - 1
        /\ ~ IsNone(last_call.kline)
        /\ Get(last_call.kline).symbol = s
        /\ Get(last_call.kline).open # 0
        /\ Len(store.alerts) > 0

---------------------------------------------------------------------------
(* The latest handler call, seen from outside *)

Handled == ~ IsNone(last_call.kline)

LastSym == Get(last_call.kline).symbol

\* the window the latest call computed on (no later step touches it)
LastWindow == windows[LastSym]

HighestHigh(w) == MaxOf({ w[j].high : j \in 1..Len(w) })

LowestLow(w) == CHOOSE v \in { w[j].low : j \in 1..Len(w) } : \A j \in 1..Len(w) : v <= w[j].low

\* (max high - latest close) / oldest open, (latest close - min low) / oldest open
DropOf(w) == Frac(HighestHigh(w) - w[Len(w)].close, w[1].open)

RiseOf(w) == Frac(w[Len(w)].close - LowestLow(w), w[1].open)

\* _emit_alert was called for the key in the latest call
Attempted(key) ==
    \E i \in CallsNamed("_emit_alert") : last_call.calls[i].arg = key

\* the rows the latest call handed to insert_alert, the alerts it broadcast
InsertedInCall(key) ==
    { i \in CallsNamed("insert_alert") : RowKey(last_call.calls[i].arg) = key }

BroadcastInCall(key) ==
    { i \in CallsNamed("broadcast") :
        /\ last_call.calls[i].arg.type = "alert"
        /\ PayloadIsOf(last_call.calls[i].arg, key) }

\* the firings of the latest call are the last ones of the history
CallFirings ==
    ( Len(firings) - Cardinality(CallsNamed("_emit_alert")) + 1 ) .. Len(firings)

\* firing j came less than alert_dedup_seconds after the last emitted alert of its key
Deduped(j) ==
    LET prev == EmittedBefore(FiringKey(firings[j]), j)
    IN  prev # {} /\ firings[j].at - firings[MaxOf(prev)].at < alert_dedup_seconds

\* C3: on a full window with a non-zero oldest open, and for every configured
\* threshold t, _emit_alert is called for rapid_drop iff (max high - latest
\* close) / oldest open >= t, and for rapid_rebound iff (latest close - min low)
\* / oldest open >= t; a call that is not deduped inserts and broadcasts one
\* alert of that kind with magnitude t, a deduped one none.  When the peak high
\* is 1.2% above the oldest open and the latest close equals the oldest open,
\* the threshold 0.01 gets one rapid_drop call and never an alert that is not
\* anchored at the peak.
C3_FireIff ==
    (Handled /\ ~ last_call.raised /\ Len(LastWindow) = window_size_minutes
             /\ LastWindow[1].open # 0) =>
        LET w == LastWindow
        IN  /\ \A i \in 1..Len(alert_thresholds) :
                  LET t == alert_thresholds[i]
                  IN  /\ Attempted(<< LastSym, "rapid_drop", t >>) <=> FracGe(DropOf(w), t)
                      /\ Attempted(<< LastSym, "rapid_rebound", t >>) <=> FracGe(RiseOf(w), t)
            /\ \A key \in AllKeys :
                  IF \E j \in CallFirings : FiringKey(firings[j]) = key /\ ~ Deduped(j)
                      THEN /\ Attempted(key)
                           /\ Cardinality(InsertedInCall(key)) = 1
                           /\ Cardinality(BroadcastInCall(key)) = 1
                      ELSE InsertedInCall(key) = {} /\ BroadcastInCall(key) = {}
            /\ ( (HighestHigh(w) - w[1].open) * 1000 = 12 * w[1].open
                    /\ w[Len(w)].close = w[1].open ) =>
                  /\ Cardinality({ i \in CallsNamed("_emit_alert") :
                        last_call.calls[i].arg = << LastSym, "rapid_drop", << 1, 100 >> >> }) = 1
                  /\ \A i \in InsertedInCall(<< LastSym, "rapid_drop", << 1, 100 >> >>) :
                        last_call.calls[i].arg.anchor_type = "peak"

\* the scenario: peak high 1.2% above the oldest open, latest close equal to it;
\* one rapid_drop alert of magnitude 0.01 anchored at the peak, no rebound
C3_Witness ==
    /\ Handled /\ Len(LastWindow) = window_size_minutes
    /\ LastWindow[1].open # 0
    /\ (HighestHigh(LastWindow) - LastWindow[1].open) * 1000 = 12 * LastWindow[1].open
    /\ LastWindow[Len(LastWindow)].close = LastWindow[1].open
    /\ Cardinality(InsertedInCall(<< LastSym, "rapid_drop", << 1, 100 >> >>)) = 1
    /\ \A i \in InsertedInCall(<< LastSym, "rapid_drop", << 1, 100 >> >>) :
          /\ last_call.calls[i].arg.anchor_type = "peak"
          /\ last_call.calls[i].arg.magnitude = << 1, 100 >>
    /\ ~ Attempted(<< LastSym, "rapid_rebound", << 1, 100 >> >>)

\* C4: every alert row and every alert payload pairs rapid_drop with the peak
\* (anchor_type peak, anchor_price the peak high, anchor_ts the peak time, move
\* = drop_from_peak) and rapid_rebound with the trough (anchor_type trough,
\* anchor_price the lowest low, move = rise_from_trough); the i-th row and the
\* i-th payload agree on kind, magnitude, ts and anchor; and the rows of the
\* latest call carry the window's own peak or trough.
C4_AnchorConsistent ==
    /\ \A i \in 1..Len(store.alerts) :
          LET r == store.alerts[i]
          IN  IF r.alert_type = "rapid_drop"
                  THEN /\ r.anchor_type = "peak"
                       /\ r.anchor_price = r.reference_high
                       /\ r.anchor_ts = r.reference_peak_ts
                       /\ r.move_from_anchor = r.drop_from_peak
                  ELSE /\ r.alert_type = "rapid_rebound"
                       /\ r.anchor_type = "trough"
                       /\ r.anchor_price = r.reference_low
    /\ \A i \in 1..Len(sent_alerts) :
          LET ref == sent_alerts[i].reference
          IN  IF sent_alerts[i].alert_type = "rapid_drop"
                  THEN /\ ref.anchor_type = "peak"
                       /\ ref.anchor_price = ref.peak_price
                       /\ ref.anchor_ts = ref.peak_ts
                       /\ ref.move_from_anchor = ref.drop_from_peak
                  ELSE /\ sent_alerts[i].alert_type = "rapid_rebound"
                       /\ ref.anchor_type = "trough"
                       /\ ref.anchor_price = ref.low
                       /\ ref.move_from_anchor = ref.rise_from_trough
    /\ Len(store.alerts) = Len(sent_alerts)
    /\ \A i \in 1..Len(store.alerts) :
          LET r == store.alerts[i]
              p == sent_alerts[i]
          IN  /\ r.alert_type = p.alert_type
              /\ r.magnitude = p.magnitude
              /\ r.ts = p.ts
              /\ r.anchor_type = p.reference.anchor_type
              /\ r.anchor_price = p.reference.anchor_price
              /\ r.anchor_ts = p.reference.anchor_ts
              /\ r.anchor_pct_from_open = p.reference.anchor_pct_from_open
              /\ r.move_from_anchor = p.reference.move_from_anchor
    /\ (Handled /\ ~ last_call.raised) =>
          \A i \in CallsNamed("insert_alert") :
              LET r == last_call.calls[i].arg
                  w == LastWindow
              IN  IF r.alert_type = "rapid_drop"
                      THEN /\ r.anchor_price = HighestHigh(w)
                           /\ \E j \in 1..Len(w) : /\ w[j].high = HighestHigh(w)
                                                   /\ r.anchor_ts = w[j].close_time
                           /\ FracEq(r.move_from_anchor, DropOf(w))
                      ELSE /\ r.anchor_price = LowestLow(w)
                           /\ \E j \in 1..Len(w) : /\ w[j].low = LowestLow(w)
                                                   /\ r.anchor_ts = w[j].close_time
                           /\ FracEq(r.move_from_anchor, RiseOf(w))

\* one call that emitted a rapid_drop and a rapid_rebound whose anchors differ
\* in price and in time
C4_Witness ==
    /\ Handled
    /\ \E i, j \in CallsNamed("insert_alert") :
          /\ last_call.calls[i].arg.alert_type = "rapid_drop"
          /\ last_call.calls[j].arg.alert_type = "rapid_rebound"
          /\ last_call.calls[i].arg.anchor_price # last_call.calls[j].arg.anchor_price
          /\ last_call.calls[i].arg.anchor_ts # last_call.calls[j].arg.anchor_ts
          /\ ~ FracEq(last_call.calls[i].arg.move_from_anchor,
                      last_call.calls[j].arg.move_from_anchor)

\* C5: a suppressed firing changes nothing.  The key's time in last_alert_at is
\* always the time of the last firing of that key that got past the dedup test
\* (0 if none), whatever suppressed firings came after it; and a suppressed
\* firing of the latest call is followed by no insert_alert and no alert
\* broadcast of its key.
C5_SuppressedNoEffect ==
    /\ \A key \in AllKeys :
          LET passed == { i \in 1..Len(firings) :
                            FiringKey(firings[i]) = key /\ firings[i].outcome # "suppressed" }
          IN  LastAt(last_alert_at, key) = IF passed = {} THEN 0 ELSE firings[MaxOf(passed)].at
    /\ DOMAIN last_alert_at \subseteq AllKeys
    /\ Handled =>
          \A j \in CallFirings :
              firings[j].outcome = "suppressed" =>
                  /\ InsertedInCall(FiringKey(firings[j])) = {}
                  /\ BroadcastInCall(FiringKey(firings[j])) = {}
    /\ Len(store.alerts) = CountSeq(firings, LAMBDA f : f.outcome = "emitted")
    /\ Len(sent_alerts) = CountSeq(firings, LAMBDA f : f.outcome = "emitted")

\* the latest call's firing of a key was suppressed at a later second than the
\* key's time in last_alert_at, which still is that of the emitted alert
C5_Witness ==
    /\ Handled
    /\ \E j \in CallFirings :
          /\ firings[j].outcome = "suppressed"
          /\ FiringKey(firings[j]) \in DOMAIN last_alert_at
          /\ last_alert_at[FiringKey(firings[j])] < firings[j].at
          /\ InsertedInCall(FiringKey(firings[j])) = {}

\* the firings a step adds to the history
NewFirings == (Len(firings) + 1) .. Len(firings')

\* C6: dedup is per exact key.  In every step a key's time changes only if that
\* very key was fired and got past the dedup test in the step, and a firing is
\* suppressed exactly when its own key's time, as it was before the step, is
\* less than alert_dedup_seconds back: alerts emitted earlier in the same pass
\* for other thresholds, the other kind or another symbol play no part.
C6_PerExactKey ==
    [][ /\ DOMAIN last_alert_at' \subseteq AllKeys
        /\ \A key \in AllKeys :
              LET mine == { j \in NewFirings : FiringKey(firings'[j]) = key }
              IN  /\ LastAt(last_alert_at', key) # LastAt(last_alert_at, key)
                        => \E j \in mine : firings'[j].outcome # "suppressed"
                  /\ \A j \in mine :
                        (firings'[j].outcome = "suppressed")
                            <=> (now - LastAt(last_alert_at, key) < alert_dedup_seconds) ]_vars

\* one pass that emitted both kinds for both thresholds of one symbol, while an
\* alert of the other symbol had been emitted before it
C6_Witness ==
    /\ Handled
    /\ \A i \in 1..Len(alert_thresholds) : \A a \in AlertTypes :
          Cardinality(InsertedInCall(<< LastSym, a, alert_thresholds[i] >>)) = 1
    /\ \E s \in Symbols : s # LastSym /\ \E i \in 1..Len(store.alerts) : store.alerts[i].symbol = s

\* C7: for one window update and one threshold at most one of rapid_drop and
\* rapid_rebound is emitted; both kinds are emitted in one update only for
\* different thresholds.
C7_AtMostOneKind ==
    Handled =>
        \A i \in 1..Len(alert_thresholds) :
            ~ ( /\ InsertedInCall(<< LastSym, "rapid_drop", alert_thresholds[i] >>) # {}
                /\ InsertedInCall(<< LastSym, "rapid_rebound", alert_thresholds[i] >>) # {} )

\* one update that emitted a rapid_drop and a rapid_rebound for the same threshold
C7_Witness ==
    /\ Handled
    /\ \E i \in 1..Len(alert_thresholds) :
          /\ InsertedInCall(<< LastSym, "rapid_drop", alert_thresholds[i] >>) # {}
          /\ InsertedInCall(<< LastSym, "rapid_rebound", alert_thresholds[i] >>) # {}

C9_ReferenceOpenIsOldest ==
    (Handled /\ ~ IsNone(last_call.stats)) =>
        LET k == Len(fed[LastSym])
        IN  /\ k >= window_size_minutes
            /\ Get(last_call.stats).reference_open = LastWindow[1].open
            /\ Get(last_call.stats).reference_open
                  = fed[LastSym][k - window_size_minutes + 1].open
            /\ \A i \in CallsNamed("insert_alert") :
                  last_call.calls[i].arg.reference_open
                      = fed[LastSym][k - window_size_minutes + 1].open

\* statistics after an eviction, with a reference_open that differs from the
\* open of the evicted kline and from the open of the latest one
C9_Witness ==
    /\ Handled /\ ~ IsNone(last_call.stats)
    /\ Len(fed[LastSym]) > window_size_minutes
    /\ LET k == Len(fed[LastSym])
       IN  /\ Get(last_call.stats).reference_open # fed[LastSym][k - window_size_minutes].open
           /\ Get(last_call.stats).reference_open # fed[LastSym][k].open

\* C10: a window never holds more than N klines; after k klines of a symbol it
\* holds the last min(k, N) of them in arrival order; every kline in a window
\* is of the window's symbol.
C10_WindowIsLastN ==
    \A s \in Symbols :
        LET k == Len(fed[s])
            n == IF k < window_size_minutes THEN k ELSE window_size_minutes
        IN  /\ Len(windows[s]) <= window_size_minutes
            /\ Len(windows[s]) = n
            /\ \A i \in 1..n : windows[s][i] = fed[s][k - n + i]
            /\ \A i \in 1..Len(windows[s]) : windows[s][i].symbol = s

\* one symbol has evicted its oldest kline, the other holds a partial window
C10_Witness ==
    \E s, o \in Symbols :
        /\ s # o
        /\ Len(fed[s]) > window_size_minutes
        /\ Len(windows[s]) = window_size_minutes
        /\ windows[s][1] # fed[s][1]
        /\ Len(windows[o]) > 0

---------------------------------------------------------------------------
(* Views of the listener's history *)

\* the step is the return of the handler called with the message it names
Returns(msg) == ~ IsNone(handling) /\ Get(handling).msg = msg /\ IsNone(handling')

\* the closed klines of a tracked symbol whose handler has returned, in order
HandledKlines(s) ==
    SelectSeq(trace, LAMBDA t : /\ t.ev = "end"
                                /\ t.msg.e = "kline"
                                /\ t.msg.x
                                /\ t.msg.s = s)

\* the last event of the trace is the return of the handler of such a message
JustReturned(Test(_)) ==
    /\ trace # << >>
    /\ trace[Len(trace)].ev = "end"
    /\ Test(trace[Len(trace)].msg)

\* C11: a kline message that is not marked closed is discarded with no effect:
\* the step in which its handler returns changes nothing of the monitor, the
\* Store or the hub (no call is made, nothing is persisted or broadcast); and
\* the klines that entered a symbol's window are exactly the closed klines
\* handled for that symbol, so no window holds an in-progress kline.
C11_InProgressDiscarded ==
    /\ [][ \A msg \in ListenerMessages :
              (Returns(msg) /\ msg.e = "kline" /\ ~ msg.x)
                  => UNCHANGED <<monitorVars, hubVars>> ]_vars
    /\ [](\A s \in Symbols :
              /\ Len(fed[s]) = Len(HandledKlines(s))
              /\ \A i \in 1..Len(fed[s]) :
                    /\ fed[s][i].symbol = s
                    /\ fed[s][i].open  = HandledKlines(s)[i].msg.k.open
                    /\ fed[s][i].high  = HandledKlines(s)[i].msg.k.high
                    /\ fed[s][i].low   = HandledKlines(s)[i].msg.k.low
                    /\ fed[s][i].close = HandledKlines(s)[i].msg.k.close
              /\ \A i \in 1..Len(windows[s]) :
                    \E j \in 1..Len(fed[s]) : windows[s][i] = fed[s][j])

\* an in-progress kline of a symbol was handled after a closed one: the window
\* holds the closed kline only, and the last price is still its close
C11_Witness ==
    /\ JustReturned(LAMBDA m : m.e = "kline" /\ ~ m.x)
    /\ LET s == trace[Len(trace)].msg.s
       IN  /\ Len(windows[s]) = 1
           /\ windows[s][1].close # trace[Len(trace)].msg.k.close
           /\ last_price[s] = Some(windows[s][1].close)

\* C12: a closed-kline or mini-ticker message whose symbol is not tracked is
\* dropped: the step in which its handler returns raises nothing and changes
\* nothing of the monitor, the Store or the hub (no window, last-price or
\* daily-open entry, nothing persisted, nothing broadcast).
C12_UntrackedDropped ==
    [][ \A msg \in ListenerMessages :
           ( /\ Returns(msg)
             /\ msg.s \notin Symbols
             /\ (msg.e = "24hrMiniTicker" \/ msg.x) )
               => UNCHANGED <<monitorVars, hubVars>> ]_vars

\* src/crypto_monitor.py after a closed kline of an untracked symbol: its row is
\* in the klines table and the handler raised
C12_Witness ==
    /\ JustReturned(LAMBDA m : m.e = "kline" /\ m.x /\ m.s \notin Symbols)
    /\ last_call.raised
    /\ \E r \in store.klines : r.symbol \notin Symbols

\* C13: handling a mini-ticker of a tracked symbol sets last_price of that
\* symbol to the ticker's price and makes one call, the broadcast of one price
\* payload of that symbol and price; windows, daily-open state, the dedup map
\* and the Store's tables are unchanged and no alert is fired or sent.
C13_TickChangesOnlyLastPrice ==
    [][ \A msg \in ListenerMessages :
           (Returns(msg) /\ msg.e = "24hrMiniTicker" /\ msg.s \in Symbols) =>
               /\ last_price' = [last_price EXCEPT ![msg.s] = Some(msg.c)]
               /\ UNCHANGED <<windows, today_key_by_tz, today_open_by_tz, last_alert_at,
                              store, fed, firings, sent_alerts>>
               /\ ~ last_call'.raised
               /\ Len(last_call'.calls) = 1
               /\ last_call'.calls[1].call = "broadcast"
               /\ last_call'.calls[1].arg.type = "price"
               /\ last_call'.calls[1].arg.symbol = symbol_upper[msg.s]
               /\ last_call'.calls[1].arg.price = msg.c ]_vars

\* a mini-ticker handled for a symbol whose window and daily opens are set, at
\* a price that is neither the last close nor the day's open, while the other
\* symbol has its own last price
C13_Witness ==
    /\ JustReturned(LAMBDA m : m.e = "24hrMiniTicker" /\ m.s \in Symbols)
    /\ LET s == trace[Len(trace)].msg.s
           c == trace[Len(trace)].msg.c
       IN  /\ windows[s] # << >>
           /\ windows[s][Len(windows[s])].close # c
           /\ last_price[s] = Some(c)
           /\ ~ IsNone(today_open_by_tz["utc"][s])
           /\ today_open_by_tz["utc"][s] # Some(c)
           /\ \E o \in Symbols : o # s /\ ~ IsNone(last_price[o])

\* the civil date, in days since the epoch, of a millisecond timestamp in a
\* timezone of the model
CivilDay(tz, ms) == ((ms \div 1000) + timezone_keys[tz]) \div 86400

\* C14: on every closed kline the rollover is decided for every timezone on its
\* own: where the kline's open_time falls on another civil date than the stored
\* one, the stored date becomes that date and the stored open the kline's open;
\* where it falls on the stored date, date and open stay; whatever the other
\* timezones did.  The state of other symbols is untouched, and a step that
\* appends no kline changes no daily-open state.
C14_RolloverPerTimezone ==
    [][ /\ \A s \in Symbols :
              Len(fed'[s]) > Len(fed[s]) =>
                  LET k == fed'[s][Len(fed'[s])]
                  IN  \A tz \in DOMAIN timezone_keys :
                          /\ IF today_key_by_tz[tz][s] # Some(CivilDay(tz, k.open_time))
                                THEN /\ today_key_by_tz'[tz][s] = Some(CivilDay(tz, k.open_time))
                                     /\ today_open_by_tz'[tz][s] = Some(k.open)
                                ELSE /\ today_key_by_tz'[tz][s] = today_key_by_tz[tz][s]
                                     /\ today_open_by_tz'[tz][s] = today_open_by_tz[tz][s]
                          /\ \A o \in Symbols \ {s} :
                                /\ today_key_by_tz'[tz][o] = today_key_by_tz[tz][o]
                                /\ today_open_by_tz'[tz][o] = today_open_by_tz[tz][o]
        /\ (\A s \in Symbols : fed'[s] = fed[s])
              => UNCHANGED <<today_key_by_tz, today_open_by_tz>> ]_vars

\* a symbol's second kline fell on a new date in UTC and on the stored date in
\* Beijing: the UTC open is its open, the Beijing open still the first kline's,
\* and the other symbol has its own stored opens
C14_Witness ==
    \E s, o \in Symbols :
        /\ s # o
        /\ Len(fed[s]) = 2
        /\ fed[s][1].open # fed[s][2].open
        /\ CivilDay("utc", fed[s][1].open_time) # CivilDay("utc", fed[s][2].open_time)
        /\ CivilDay("beijing", fed[s][1].open_time) = CivilDay("beijing", fed[s][2].open_time)
        /\ today_open_by_tz["utc"][s] = Some(fed[s][2].open)
        /\ today_open_by_tz["beijing"][s] = Some(fed[s][1].open)
        /\ Len(fed[o]) = 1
        /\ today_open_by_tz["utc"][o] = Some(fed[o][1].open)

\* the first kline of a symbol's history whose open_time falls on a civil date
FirstOnDay(s, tz, day) ==
    fed[s][CHOOSE i \in 1..Len(fed[s]) :
              /\ CivilDay(tz, fed[s][i].open_time) = day
              /\ \A j \in 1..(i - 1) : CivilDay(tz, fed[s][j].open_time) # day]

\* C15: for klines arriving in open_time order, the stored date of (timezone,
\* symbol) is the civil date of the symbol's latest closed kline and the stored
\* open is the open of the first kline observed on that date: later klines of
\* the date do not change it.  This holds after every closed kline, also while
\* the window is not full; before the first kline nothing is stored.
C15_OpenOfFirstKlineOfDay ==
    \A s \in Symbols : \A tz \in DOMAIN timezone_keys :
        IF fed[s] = << >>
            THEN /\ IsNone(today_key_by_tz[tz][s])
                 /\ IsNone(today_open_by_tz[tz][s])
            ELSE LET day == CivilDay(tz, fed[s][Len(fed[s])].open_time)
                 IN  /\ today_key_by_tz[tz][s] = Some(day)
                     /\ today_open_by_tz[tz][s] = Some(FirstOnDay(s, tz, day).open)

\* a later kline of the stored date, with another open, left the stored open
\* alone; and another symbol's open was stored by the first kline of a window
\* that is not full
C15_Witness ==
    \E s, o \in Symbols :
        /\ Len(fed[s]) >= 2
        /\ CivilDay("beijing", fed[s][Len(fed[s])].open_time)
              = CivilDay("beijing", fed[s][1].open_time)
        /\ fed[s][Len(fed[s])].open # fed[s][1].open
        /\ today_open_by_tz["beijing"][s] = Some(fed[s][1].open)
        /\ Len(fed[o]) = 1
        /\ Len(windows[o]) < window_size_minutes
        /\ today_open_by_tz["beijing"][o] = Some(fed[o][1].open)

\* (price - storedOpen) / storedOpen, or nothing when no open is stored, no
\* price is known or the stored open is zero
PctFromOpen(stored, price) ==
    IF stored = << >> \/ price = << >> THEN << >>
    ELSE IF stored[1] = 0 THEN << >>
    ELSE << << price[1] - stored[1], stored[1] >> >>

\* C16: every price payload the latest handler call broadcast, and every entry
\* of snapshot(), reports for each timezone key day_open = the stored open of
\* (timezone, symbol) and pct_from_day_open = (price - storedOpen) / storedOpen,
\* or nothing when no open is stored or the stored open is zero; snapshot() has
\* one entry per tracked symbol, whose price is the price of the last mini-ticker
\* or closed-kline close handled for the symbol (nothing before any).
C16_PriceAndSnapshotFields ==
    /\ \A i \in 1..Len(last_call.calls) :
          (last_call.calls[i].call = "broadcast" /\ last_call.calls[i].arg.type = "price") =>
              LET p == last_call.calls[i].arg
              IN  \E s \in Symbols :
                      /\ p.symbol = symbol_upper[s]
                      /\ Some(p.price) = seen_price[s]
                      /\ \A tz \in DOMAIN timezone_keys :
                            /\ p.day_open[tz] = today_open_by_tz[tz][s]
                            /\ p.pct_from_day_open[tz]
                                  = PctFromOpen(today_open_by_tz[tz][s], Some(p.price))
    /\ DOMAIN Snapshot = { symbol_upper[s] : s \in Symbols }
    /\ \A s \in Symbols :
          /\ Snapshot[symbol_upper[s]].price = seen_price[s]
          /\ \A tz \in DOMAIN timezone_keys :
                /\ Snapshot[symbol_upper[s]].day_open[tz] = today_open_by_tz[tz][s]
                /\ Snapshot[symbol_upper[s]].pct_from_day_open[tz]
                      = PctFromOpen(today_open_by_tz[tz][s], seen_price[s])

\* a mini-ticker at 1012 was just broadcast for a symbol whose stored opens are
\* zero: no percentage; another symbol has an open of 1000 and a percentage; in
\* a third state of the same run a symbol has no price yet
C16_Witness ==
    /\ JustReturned(LAMBDA m : m.e = "24hrMiniTicker" /\ m.s \in Symbols)
    /\ LET s == trace[Len(trace)].msg.s
       IN  /\ today_open_by_tz["utc"][s] = Some(0)
           /\ Snapshot[symbol_upper[s]].price = Some(1012)
           /\ IsNone(Snapshot[symbol_upper[s]].pct_from_day_open["utc"])
           /\ IsNone(last_call.calls[1].arg.pct_from_day_open["utc"])
           /\ \E o \in Symbols :
                 /\ o # s
                 /\ ~ IsNone(Snapshot[symbol_upper[o]].pct_from_day_open["beijing"])

\* C20: within one upstream connection the handler calls do not overlap and
\* follow the arrival order: the trace is start 1, end 1, start 2, end 2, ...,
\* every start followed by the end of the same message before the next start,
\* the k-th start being that of the k-th message arrived; a message is being
\* handled exactly between its start and its end; and the monitor, the Store
\* and the hub change only in the step in which the handler of the message
\* being handled returns.
C20_OneAtATimeInOrder ==
    /\ [](/\ \A i \in 1..Len(trace) :
                /\ trace[i].ev = (IF i % 2 = 1 THEN "start" ELSE "end")
                /\ trace[i].n = (i + 1) \div 2
          /\ IsNone(handling) <=> (Len(trace) % 2 = 0)
          /\ ~ IsNone(handling) => Get(handling).n = trace[Len(trace)].n
          /\ \A i \in 1..Len(inbox) : inbox[i].n = (Len(trace) + 1) \div 2 + i)
    /\ [][ (monitorVars' # monitorVars \/ hubVars' # hubVars) =>
              /\ ~ IsNone(handling)
              /\ IsNone(handling')
              /\ trace' = Append(trace, [ev |-> "end", n |-> Get(handling).n,
                                         msg |-> Get(handling).msg]) ]_vars

\* a message waits unread while the handler of the one before it has not
\* returned, after an earlier handler call that wrote a kline has returned
C20_Witness ==
    /\ ~ IsNone(handling)
    /\ inbox # << >>
    /\ Len(trace) = 3
    /\ store.klines # {}
    /\ inbox[1].n = Get(handling).n + 1

---------------------------------------------------------------------------
(* Views of the hub's history *)

\* the passes a step adds to the history
NewPasses == (Len(passes) + 1) .. Len(passes')

\* the payloads the handler call of a step handed to broadcaster.broadcast
BroadcastPayloads(calls) ==
    LET made == SelectSeq(calls, LAMBDA c : c.call = "broadcast")
    IN  [i \in 1..Len(made) |-> made[i].arg]

\* the payloads of the new passes that reached sink c, in order
RECURSIVE ReachedFrom(_, _)
ReachedFrom(c, k) ==
    IF k > Len(passes') THEN << >>
    ELSE (IF c \in passes'[k].targets \ broken THEN << passes'[k].payload >> ELSE << >>)
            \o ReachedFrom(c, k + 1)

\* C17: a broadcast pass sends the payload to every sink that is in the set
\* when the pass starts; the sinks whose send raises, and no others, are removed
\* after the pass; the sinks whose send succeeds have received the payload; the
\* pass is not cut short and the caller sees no exception, so the handler goes
\* on to its next broadcast with the remaining sinks.
C17_BroadcastSurvivesFailures ==
    [][ NewPasses # {} =>
          /\ ~ last_call'.raised
          /\ \A k \in NewPasses :
                /\ passes'[k].targets = (IF k = Len(passes) + 1 THEN clients
                                         ELSE passes'[k - 1].targets \ passes'[k - 1].stale)
                /\ passes'[k].targets # {}
                /\ passes'[k].stale = passes'[k].targets \cap broken
                /\ k - Len(passes) <= Len(BroadcastPayloads(last_call'.calls))
                /\ passes'[k].payload = BroadcastPayloads(last_call'.calls)[k - Len(passes)]
          /\ clients' = passes'[Len(passes')].targets \ broken
          /\ Len(passes') - Len(passes) < Len(BroadcastPayloads(last_call'.calls))
                => clients' = {}
          /\ \A c \in Sinks :
                delivered'[c] = delivered[c] \o ReachedFrom(c, Len(passes) + 1) ]_vars

\* a pass over both sinks in which the send to one raised: that sink alone was
\* removed, and the other received the payload
C17_Witness ==
    /\ passes # << >>
    /\ LET last == passes[Len(passes)]
       IN  /\ last.targets = Sinks
           /\ Cardinality(last.stale) = 1
           /\ clients = Sinks \ last.stale
           /\ \A c \in clients :
                 /\ delivered[c] # << >>
                 /\ delivered[c][Len(delivered[c])] = last.payload
           /\ \A c \in last.stale :
                 \A i \in 1..Len(delivered[c]) : delivered[c][i] # last.payload

\* C18: a connected sink receives exactly one snapshot and receives it before
\* any price or alert payload: in the messages delivered to a sink the snapshot
\* is the first and only the first, whatever the interleaving of the connection
\* handler with the broadcasts.
C18_SnapshotFirst ==
    \A c \in Sinks :
        \A i \in 1..Len(delivered[c]) :
            (delivered[c][i].type = "snapshot") <=> (i = 1)

\* a sink whose first message is a price payload, broadcast while its handler
\* waited for fetch_recent_alerts, and whose snapshot came second
C18_Witness ==
    \E c \in Sinks :
        /\ Len(delivered[c]) = 2
        /\ delivered[c][1].type = "price"
        /\ delivered[c][2].type = "snapshot"
        /\ conn[c].pc = "streaming"
        /\ c \notin broken

\* the rows of the alerts table at or after a cutoff
InRetention(cutoff_ms) == { i \in 1..Len(store.alerts) : store.alerts[i].ts >= cutoff_ms }

\* C19: fetch_recent_alerts computes its cutoff as now - retention_seconds; the
\* rows it returns are at most limit, ordered by ts descending, each a different
\* persisted row with ts at or after the cutoff, as many as min(limit, number of
\* such rows), and no such row left out is more recent than a returned one; the
\* alerts of the snapshot are those rows, in that order.
C19_RecentAlerts ==
    [][ \A c \in Sinks :
          /\ (conn[c].pc = "new" /\ conn'[c].pc = "fetching")
                => conn'[c].cutoff_ms = (now - retention_seconds) * 1000
          /\ (conn[c].pc = "fetching" /\ conn'[c].pc = "fetched") =>
                LET rows == conn'[c].rows
                IN  /\ Len(rows) <= recent_limit
                    /\ \A j, k \in 1..Len(rows) : j < k => rows[j].ts >= rows[k].ts
                    /\ \A j \in 1..Len(rows) : rows[j].ts >= conn[c].cutoff_ms
                    /\ \E q \in [1..Len(rows) -> 1..Len(store.alerts)] :
                          /\ \A j, k \in 1..Len(rows) : j # k => q[j] # q[k]
                          /\ \A j \in 1..Len(rows) : store.alerts[q[j]] = rows[j]
                          /\ \A i \in InRetention(conn[c].cutoff_ms) :
                                (\A j \in 1..Len(rows) : q[j] # i)
                                    => \A j \in 1..Len(rows) :
                                          store.alerts[i].ts <= rows[j].ts
                    /\ Len(rows) = (IF Cardinality(InRetention(conn[c].cutoff_ms)) < recent_limit
                                       THEN Cardinality(InRetention(conn[c].cutoff_ms))
                                       ELSE recent_limit)
          /\ (conn[c].pc = "fetched" /\ conn'[c].pc = "streaming" /\ c \notin broken) =>
                LET snap == delivered'[c][Len(delivered'[c])]
                IN  /\ snap.type = "snapshot"
                    /\ Len(snap.alerts) = Len(conn[c].rows)
                    /\ \A j \in 1..Len(snap.alerts) :
                          /\ snap.alerts[j].ts = conn[c].rows[j].ts
                          /\ snap.alerts[j].symbol = symbol_upper[conn[c].rows[j].symbol]
                          /\ snap.alerts[j].alert_type = conn[c].rows[j].alert_type
                          /\ snap.alerts[j].magnitude = conn[c].rows[j].magnitude ]_vars

\* three alerts are persisted, all inside the retention window, and the
\* snapshot a client received holds exactly those three, the most recent first
C19_Witness ==
    /\ Len(store.alerts) = 3
    /\ \E c \in Sinks :
          /\ delivered[c] # << >>
          /\ LET snap == delivered[c][Len(delivered[c])]
             IN  /\ snap.type = "snapshot"
                 /\ Len(snap.alerts) = 3
                 /\ snap.alerts[1].ts > snap.alerts[3].ts
                 /\ \A i \in 1..3 : store.alerts[i].ts >= conn[c].cutoff_ms
                 /\ \A i \in 1..3 : \E j \in 1..3 : snap.alerts[j] = AlertFromRow(store.alerts[i])

---------------------------------------------------------------------------
(* Views of the listener's connection *)

\* the step is a failure of the connection or of the attempt to connect
LinkFailure == link.pc \in {"connecting", "connected"} /\ link'.pc = "sleeping"

\* C21: the listener is always connecting, connected or sleeping; every
\* failure starts a sleep from zero; the sleep ends only in a new attempt to
\* connect, and only after exactly backoff_sec = 3 seconds, however many
\* failures came before; and every sleep is eventually followed by an attempt.
C21_ReconnectAfterFixedBackoff ==
    /\ [](link.pc \in {"connecting", "connected", "sleeping"})
    /\ [](link.pc = "sleeping" => link.slept \in 0..backoff_sec)
    /\ [][ /\ LinkFailure => link'.slept = 0
           /\ link.pc = "sleeping" => link'.pc \in {"sleeping", "connecting"}
           /\ (link.pc = "sleeping" /\ link'.pc = "connecting") => link.slept = 3
           /\ (link.pc = "sleeping" /\ link'.pc = "sleeping")
                 => link'.slept \in {link.slept, link.slept + 1} ]_vars
    /\ (link.pc = "sleeping") ~> (link.pc = "connecting")

\* a second attempt to connect has failed after a first failure and its sleep:
\* the listener sleeps again, a handler having raised in between
C21_Witness ==
    /\ link.pc = "sleeping"
    /\ link.slept = 3
    /\ \E i \in 1..Len(trace) : trace[i].ev = "raise"
    /\ arrived = MaxLinkArrivals

\* the step in which the handler of a closed kline of a tracked symbol ends
KlineHandlerEnds ==
    /\ ~ IsNone(handling)
    /\ IsNone(handling')
    /\ Get(handling).msg.form = "ok"
    /\ WritesToStore(Get(handling).msg)

\* C22: whichever Store writes are raising, the handler of a closed kline
\* returns normally, the kline has entered its window, the daily open of its
\* symbol is set, the statistics of a full window are computed, and the
\* connection stays open with its unread messages.
C22_StoreFailureNonFatal ==
    [][ KlineHandlerEnds =>
          LET sym == Get(handling).msg.s
          IN  /\ trace'[Len(trace')].ev = "end"
              /\ ~ last_call'.raised
              /\ Len(fed'[sym]) = Len(fed[sym]) + 1
              /\ windows'[sym] # << >>
              /\ windows'[sym][Len(windows'[sym])] = Get(last_call'.kline)
              /\ \A tz \in DOMAIN timezone_keys : ~ IsNone(today_open_by_tz'[tz][sym])
              /\ WindowFull(windows'[sym]) => ~ IsNone(last_call'.stats)
              /\ link'.pc = "connected"
              /\ inbox' = inbox ]_vars

\* insert_kline raised on a well-formed closed kline: the exception left the
\* handler and the loop, the kline is in no window, no daily open is set, a
\* message that had arrived was never handled and the listener sleeps
C22_Witness ==
    /\ link.pc = "sleeping"
    /\ trace # << >>
    /\ LET last == trace[Len(trace)]
       IN  /\ last.ev = "raise"
           /\ last.msg.form = "ok"
           /\ last.msg.e = "kline"
           /\ windows[last.msg.s] = << >>
           /\ \A tz \in DOMAIN timezone_keys : IsNone(today_open_by_tz[tz][last.msg.s])
    /\ last_call.raised
    /\ "insert_kline" \in failing
    /\ inbox = << >>
    /\ arrived > Cardinality({ i \in 1..Len(trace) : trace[i].ev = "start" })

\* a text that is not a well-formed kline or mini-ticker event
Malformed(msg) == msg.form # "ok" \/ msg.e \notin {"kline", "24hrMiniTicker"}

\* C23: the handler of a malformed or unexpected message ends without any
\* change of the monitor's state, of the Store or of what the subscribers
\* received, and ingestion goes on: the connection stays open and the messages
\* that arrived after it are still there to be handled.
C23_MalformedDropped ==
    [][ (~ IsNone(handling) /\ IsNone(handling') /\ Malformed(Get(handling).msg)) =>
          /\ UNCHANGED <<windows, today_key_by_tz, today_open_by_tz, last_alert_at,
                         last_price, store, fed, firings, sent_alerts, delivered>>
          /\ trace'[Len(trace')].ev = "end"
          /\ link'.pc = "connected"
          /\ inbox' = inbox ]_vars

\* json.loads raised on an undecodable text while a well-formed closed kline
\* was waiting behind it: the kline was never handled, and the listener sleeps
C23_Witness ==
    /\ link.pc = "sleeping"
    /\ trace # << >>
    /\ trace[Len(trace)].ev = "raise"
    /\ trace[Len(trace)].msg.form = "undecodable"
    /\ inbox = << >>
    /\ arrived = trace[Len(trace)].n + 1
    /\ \A s \in Symbols : fed[s] = << >>
    /\ failing = {}

\* the unknown event type is the one malformed case the handler ignores
UnknownEventIgnored ==
    [][ (~ IsNone(handling) /\ IsNone(handling') /\ Get(handling).msg.form = "ok"
           /\ Get(handling).msg.e \notin {"kline", "24hrMiniTicker"}) =>
          /\ UNCHANGED <<monitorVars, hubVars, inbox, link>>
          /\ trace'[Len(trace')].ev = "end" ]_vars

---------------------------------------------------------------------------
(* Views of the alerts persisted and broadcast *)

\* does the broadcast payload p carry the values of the persisted row r; the
\* payload's symbol is the row's symbol in upper case
SameAlert(r, p) ==
    /\ p.type = "alert"
    /\ p.symbol = symbol_upper[r.symbol]
    /\ p.alert_type = r.alert_type
    /\ p.magnitude = r.magnitude
    /\ p.ts = r.ts
    /\ p.reference.open = r.reference_open
    /\ p.reference.close = r.reference_close
    /\ p.reference.low = r.reference_low
    /\ p.reference.high = r.reference_high
    /\ p.reference.peak_ts = r.reference_peak_ts
    /\ p.reference.current_ts = r.reference_current_ts
    /\ p.reference.drop_from_peak = r.drop_from_peak
    /\ p.reference.anchor_type = r.anchor_type
    /\ p.reference.anchor_price = r.anchor_price
    /\ p.reference.anchor_ts = r.anchor_ts
    /\ p.reference.anchor_pct_from_open = r.anchor_pct_from_open
    /\ p.reference.current_pct_from_open = r.current_pct_from_open
    /\ p.reference.move_from_anchor = r.move_from_anchor

\* the broadcasts of alert payloads among the calls of the latest handler
AlertBroadcasts ==
    { i \in CallsNamed("broadcast") : last_call.calls[i].arg.type = "alert" }

\* C24: in every handler call, each insert_alert is followed at once by the
\* broadcast of the payload of the same alert, each alert broadcast is preceded
\* at once by its insert_alert, whose row is then in the alerts table, no alert
\* is broadcast twice, magnitude is the threshold of the firing and ts the
\* close_time of the latest kline; over the whole run the k-th persisted row and
\* the k-th broadcast alert are the same alert.
C24_PersistThenBroadcast ==
    /\ \A j \in CallsNamed("insert_alert") :
          /\ j < Len(last_call.calls)
          /\ j + 1 \in AlertBroadcasts
          /\ SameAlert(last_call.calls[j].arg, last_call.calls[j + 1].arg)
          /\ \E k \in 1..Len(store.alerts) : store.alerts[k] = last_call.calls[j].arg
          /\ last_call.calls[j].arg.ts = Get(last_call.kline).close_time
          /\ last_call.calls[j - 1].call = "_emit_alert"
          /\ last_call.calls[j - 1].arg =
                << last_call.calls[j].arg.symbol, last_call.calls[j].arg.alert_type,
                   last_call.calls[j].arg.magnitude >>
    /\ \A i \in AlertBroadcasts :
          /\ i > 1
          /\ last_call.calls[i - 1].call = "insert_alert"
    /\ \A i, j \in AlertBroadcasts :
          i # j => << last_call.calls[i].arg.symbol, last_call.calls[i].arg.alert_type,
                      last_call.calls[i].arg.magnitude >>
                   # << last_call.calls[j].arg.symbol, last_call.calls[j].arg.alert_type,
                        last_call.calls[j].arg.magnitude >>
    /\ Len(sent_alerts) = Len(store.alerts)
    /\ \A k \in 1..Len(store.alerts) : SameAlert(store.alerts[k], sent_alerts[k])
    /\ Len(store.alerts) = Cardinality({ f \in 1..Len(firings) : firings[f].outcome = "emitted" })

\* one handler call persisted and broadcast two alerts, a drop and a rebound
C24_Witness ==
    /\ Cardinality(AlertBroadcasts) >= 2
    /\ \E i, j \in AlertBroadcasts :
          /\ last_call.calls[i].arg.alert_type = "rapid_drop"
          /\ last_call.calls[j].arg.alert_type = "rapid_rebound"
    /\ \E f \in 1..Len(firings) : firings[f].outcome = "suppressed"

---------------------------------------------------------------------------
(* Views of the emit_alert calls *)

\* the step is an emit_alert call; its arguments are the first of its calls
EmitStep == Len(firings') = Len(firings) + 1 /\ last_call'.calls[1].call = "emit_alert"

\* <<symbol, alert_type, threshold>> of the emit_alert call of the step
EmitStepKey == SubSeq(last_call'.calls[1].arg, 1, 3)

\* C25: a forced emit_alert persists and broadcasts its alert whatever the
\* key's last-fired time was, leaves the key's last-fired time at the current
\* time and the time of every other key as it was; an unforced call for a key
\* fired less than alert_dedup_seconds ago (by a forced call or not) changes
\* nothing.
C25_ForceBypassesDedup ==
    [][ EmitStep =>
          LET a   == last_call'.calls[1].arg
              key == EmitStepKey
          IN  /\ a[4] =>
                    /\ Len(store'.alerts) = Len(store.alerts) + 1
                    /\ RowKey(store'.alerts[Len(store'.alerts)]) = key
                    /\ Len(sent_alerts') = Len(sent_alerts) + 1
                    /\ SameAlert(store'.alerts[Len(store'.alerts)],
                                 sent_alerts'[Len(sent_alerts')])
                    /\ firings'[Len(firings')].outcome = "emitted"
                    /\ key \in DOMAIN last_alert_at'
                    /\ last_alert_at'[key] = now
                    /\ DOMAIN last_alert_at' = DOMAIN last_alert_at \cup {key}
                    /\ \A k \in DOMAIN last_alert_at :
                          k # key => last_alert_at'[k] = last_alert_at[k]
              /\ (~ a[4] /\ key \in DOMAIN last_alert_at
                         /\ now - last_alert_at[key] < alert_dedup_seconds) =>
                    /\ UNCHANGED <<store, sent_alerts, last_alert_at>>
                    /\ firings'[Len(firings')].outcome = "suppressed" ]_vars

\* a key was emitted, emitted again by a forced call less than
\* alert_dedup_seconds later, and then an unforced call for it was suppressed
C25_Witness ==
    /\ Len(firings) = 3
    /\ FiringKey(firings[1]) = FiringKey(firings[2])
    /\ FiringKey(firings[3]) = FiringKey(firings[2])
    /\ firings[1].outcome = "emitted"
    /\ firings[2].outcome = "emitted"
    /\ firings[2].at - firings[1].at < alert_dedup_seconds
    /\ firings[3].outcome = "suppressed"
    /\ last_call.calls[1].call = "emit_alert"
    /\ ~ last_call.calls[1].arg[4]
    /\ Len(store.alerts) = 2

---------------------------------------------------------------------------
(* Views of the retention worker and of the Store's tables *)

\* the step is a cycle of the retention worker
WorkerCycle == worker.pc = "pruning" /\ worker' # worker

\* C26: the retention worker is always pruning or sleeping; every cycle
\* computes cutoff = (now - retention_seconds) in ms, calls the prune with it
\* and then sleeps interval_seconds = 600, whether the prune returned or
\* raised; the sleep ends only in the next cycle; and every sleep, also the
\* one after a prune that raised, is eventually followed by a cycle.
C26_WorkerLoopsForever ==
    /\ [](worker.pc \in {"pruning", "sleeping"})
    /\ [](worker.pc = "sleeping" => worker.sleep = 600)
    /\ [][ /\ WorkerCycle =>
                /\ worker'.pc = "sleeping"
                /\ worker'.cutoff_ms = Some((now - retention_seconds) * 1000)
                /\ worker'.outcome \in {"pruned", "failed"}
                /\ worker'.outcome = "pruned"
                      => store' = PruneOlderThan(store, (now - retention_seconds) * 1000, 3)
           /\ (worker.pc = "sleeping" /\ worker' # worker) => worker'.pc = "pruning" ]_vars
    /\ (worker.pc = "sleeping") ~> (worker.pc = "pruning")
    /\ (worker.pc = "sleeping" /\ worker.outcome = "failed") ~> (worker.pc = "pruning")
    /\ (worker.pc = "pruning") ~> (worker.pc = "sleeping")

\* the worker starts a cycle after a cycle whose prune raised, the clock having
\* advanced since the cutoff of that cycle
C26_Witness ==
    /\ worker.pc = "pruning"
    /\ worker.outcome = "failed"
    /\ ~ IsNone(worker.cutoff_ms)
    /\ Get(worker.cutoff_ms) < (now - retention_seconds) * 1000

\* C27: a prune that returned leaves in klines exactly the rows it held with
\* close_time >= cutoff, in window_stats exactly those with window_end >=
\* cutoff, and in alerts exactly those with ts >= cutoff, in their order.
C27_PruneStrictlyOlder ==
    [][ (WorkerCycle /\ worker'.outcome = "pruned") =>
          LET cutoff_ms == Get(worker'.cutoff_ms)
              kept      == { i \in 1..Len(store.alerts) : store.alerts[i].ts >= cutoff_ms }
          IN  /\ store'.klines \subseteq store.klines
              /\ \A r \in store.klines : r \in store'.klines <=> r.close_time >= cutoff_ms
              /\ store'.window_stats \subseteq store.window_stats
              /\ \A r \in store.window_stats :
                    r \in store'.window_stats <=> r.window_end >= cutoff_ms
              /\ Len(store'.alerts) = Cardinality(kept)
              /\ \A j \in 1..Len(store'.alerts) : store'.alerts[j].ts >= cutoff_ms
              /\ \A i \in kept : \E j \in 1..Len(store'.alerts) :
                    store'.alerts[j] = store.alerts[i] ]_vars

\* a prune returned after deleting a row of each table, and each table still
\* holds a row exactly at its cutoff
C27_Witness ==
    /\ worker.pc = "sleeping"
    /\ worker.outcome = "pruned"
    /\ worker.removed >= 3
    /\ \E r \in store.klines : r.close_time = Get(worker.cutoff_ms)
    /\ \E r \in store.window_stats : r.window_end = Get(worker.cutoff_ms)
    /\ \E i \in 1..Len(store.alerts) : store.alerts[i].ts = Get(worker.cutoff_ms)
    /\ RowCount(store) = 3

\* (symbol, open_time) of a klines row
KlineKey(r) == << r.symbol, r.open_time >>

\* C28: the klines table never holds two rows of one (symbol, open_time); an
\* insert_kline leaves the inserted kline as the row of its key and every row
\* of another key as it was; and inserting a kline a second time changes
\* nothing.
C28_KlineUpsert ==
    /\ [](\A r1, r2 \in store.klines : KlineKey(r1) = KlineKey(r2) => r1 = r2)
    /\ [](\A k \in StoreKlines :
            LET once == InsertKline(store.klines, k)
            IN  /\ InsertKline(once, k) = once
                /\ k \in once
                /\ \A r \in once : KlineKey(r) = KlineKey(k) => r = k
                /\ \A r \in store.klines : KlineKey(r) # KlineKey(k) => r \in once
                /\ once \subseteq store.klines \cup {k})
    /\ [][ (store'.klines # store.klines /\ worker' = worker) =>
             \E k \in store'.klines :
                /\ \A r \in store'.klines : KlineKey(r) = KlineKey(k) => r = k
                /\ \A r \in store.klines : KlineKey(r) # KlineKey(k) <=> r \in store'.klines \ {k}
                /\ store'.klines \ {k} \subseteq store.klines ]_vars

\* every key holds one row, with different closes for the two symbols of one
\* minute
C28_Witness ==
    /\ Cardinality(store.klines) = 4
    /\ Cardinality({ KlineKey(r) : r \in store.klines }) = 4
    /\ \E r1, r2 \in store.klines :
          /\ r1.open_time = r2.open_time
          /\ r1.symbol # r2.symbol
          /\ r1.close # r2.close

---------------------------------------------------------------------------
(* Views of the alerts of a snapshot and the rows they were built from *)

\* the alert a snapshot holds for the j-th fetched row of sink c
SnapshotAlert(c, j) == delivered[c][Len(delivered[c])].alerts[j]

EarliestHighest(w) ==
    CHOOSE j \in 1..Len(w) :
        /\ w[j].high = HighestHigh(w)
        /\ \A i \in 1..(j - 1) : w[i].high # HighestHigh(w)

\* the position in w of the earliest kline whose low is the window's minimum
EarliestLowest(w) ==
    CHOOSE j \in 1..Len(w) :
        /\ w[j].low = LowestLow(w)
        /\ \A i \in 1..(j - 1) : w[i].low # LowestLow(w)

\* C30: whenever statistics are produced the window is full, peak_ts is the
\* close_time of the earliest kline attaining the maximum high and trough_ts the
\* close_time of the earliest kline attaining the minimum low; every alert row
\* and alert payload of the call carries that peak_ts, and as anchor_ts the
\* peak's time for a rapid_drop and the trough's time for a rapid_rebound.
C30_EarliestExtremum ==
    (Handled /\ ~ IsNone(last_call.stats)) =>
        LET w == LastWindow
            stats == Get(last_call.stats)
            peak_ts == w[EarliestHighest(w)].close_time
            trough_ts == w[EarliestLowest(w)].close_time
        IN  /\ Len(w) = window_size_minutes
            /\ stats.peak_price = HighestHigh(w)
            /\ stats.trough_price = LowestLow(w)
            /\ stats.peak_ts = peak_ts
            /\ stats.trough_ts = trough_ts
            /\ \A i \in CallsNamed("insert_alert") :
                  LET r == last_call.calls[i].arg
                  IN  /\ r.reference_peak_ts = peak_ts
                      /\ r.anchor_ts = (IF r.alert_type = "rapid_drop"
                                           THEN peak_ts ELSE trough_ts)
            /\ \A i \in CallsNamed("broadcast") :
                  last_call.calls[i].arg.type = "alert" =>
                      LET p == last_call.calls[i].arg
                      IN  /\ p.reference.peak_ts = peak_ts
                          /\ p.reference.anchor_ts = (IF p.alert_type = "rapid_drop"
                                                         THEN peak_ts ELSE trough_ts)

\* a full window whose two klines tie on the high and tie on the low, with a
\* rapid_drop and a rapid_rebound alert of the call both anchored at the time of
\* the older kline
C30_Witness ==
    /\ Handled /\ ~ IsNone(last_call.stats) /\ ~ last_call.raised
    /\ Len(LastWindow) = 2
    /\ LastWindow[1].high = LastWindow[2].high
    /\ LastWindow[1].low = LastWindow[2].low
    /\ LastWindow[1].close_time # LastWindow[2].close_time
    /\ \E i \in CallsNamed("insert_alert") :
          /\ last_call.calls[i].arg.alert_type = "rapid_drop"
          /\ last_call.calls[i].arg.anchor_ts = LastWindow[1].close_time
    /\ \E i \in CallsNamed("insert_alert") :
          /\ last_call.calls[i].arg.alert_type = "rapid_rebound"
          /\ last_call.calls[i].arg.anchor_ts = LastWindow[1].close_time

\* the latest call appended its kline to the window: insert_kline returned
KlineAppended ==
    /\ Handled
    /\ LastWindow # << >>
    /\ LastWindow[Len(LastWindow)] = Get(last_call.kline)

\* C31: when a closed kline was appended to a window that is then full and
\* whose oldest open is 0, the call produced no statistics, wrote no
\* window_stats row, entered _emit_alert for no threshold and raised nothing;
\* the kline is in the klines table and is the latest of the window, the stored day of every
\* timezone is the kline's, and the call ended with exactly one price broadcast
\* of the kline's close at its close_time.
C31_ZeroOpenBaseNoStats ==
    (KlineAppended /\ Len(LastWindow) = window_size_minutes /\ LastWindow[1].open = 0) =>
        LET kline == Get(last_call.kline)
        IN  /\ IsNone(last_call.stats)
            /\ ~ last_call.raised
            /\ CallsNamed("insert_window_stats") = {}
            /\ CallsNamed("_emit_alert") = {}
            /\ CallsNamed("insert_alert") = {}
            /\ kline \in store.klines
            /\ \A tz \in DOMAIN timezone_keys :
                  today_key_by_tz[tz][LastSym] = Some(DayOf(tz, kline.open_time))
            /\ last_call.calls
                  = << Call("insert_kline", kline),
                       Call("broadcast",
                            PricePayload(LastSym, kline.close, kline.close_time,
                                         today_open_by_tz)) >>
            /\ last_price[LastSym] = Some(kline.close)

\* a full window whose oldest kline opened at 0 and whose latest closed at 1000,
\* which would fire a rebound from any non-zero base
C31_Witness ==
    /\ KlineAppended
    /\ Len(LastWindow) = window_size_minutes
    /\ LastWindow[1].open = 0
    /\ LastWindow[Len(LastWindow)].close = 1000
    /\ Len(last_call.calls) = 2
    /\ last_call.calls[2].arg.price = 1000

\* C32: at most one run_monitor instance, task or thread, is running at any
\* time; at most one caller is inside the guarded block; and an instance is
\* created only when every earlier one has ended (its task done, its thread no
\* longer alive).
C32_StartOnce ==
    /\ [](Cardinality(Running(starter)) <= 1)
    /\ [](Cardinality({ c \in Callers :
                starter.pc[c] \notin {"idle", "in_loop", "in_thread"} }) <= 1)
    /\ [][ Len(starter'.runs) > Len(starter.runs) =>
              \A i \in 1..Len(starter.runs) : starter.runs[i].state = "done" ]_vars

\* a second instance running after the first one ended, of the other kind,
\* while one caller holds the lock at its test and another waits for the lock
C32_Witness ==
    /\ Len(starter.runs) = 2
    /\ starter.runs[1].state = "done"
    /\ starter.runs[2].state = "running"
    /\ starter.runs[1].kind # starter.runs[2].kind
    /\ \E c, d \in Callers :
          /\ starter.pc[c] \in {"check_loop", "check_thread"}
          /\ starter.pc[d] \in {"in_loop", "in_thread"}

\* a closed kline of a tracked symbol
TrackedKline(msg) == msg.e = "kline" /\ msg.x /\ msg.s \in Symbols

\* C33: while the handler of one symbol's closed kline is pending at one of its
\* awaits (a Store call, a delivery to a subscriber), a closed kline of another
\* tracked symbol that has arrived can be taken and handled.
C33_OtherSymbolsProceed ==
    ( /\ ~ IsNone(handling)
      /\ TrackedKline(Get(handling).msg)
      /\ inbox # << >>
      /\ TrackedKline(Head(inbox).msg)
      /\ Head(inbox).msg.s # Get(handling).msg.s )
        => ENABLED ListenerTakes

\* the handler of a btcusdt kline is pending while an ethusdt kline, the first
\* of its symbol, and a second message wait unread behind it
C33_Witness ==
    /\ ~ IsNone(handling)
    /\ TrackedKline(Get(handling).msg)
    /\ Get(handling).msg.s = "btcusdt"
    /\ Len(inbox) = MaxInbox
    /\ TrackedKline(Head(inbox).msg)
    /\ Head(inbox).msg.s = "ethusdt"
    /\ windows["ethusdt"] = << >>
    /\ fed["ethusdt"] = << >>

\* the passes of the dedup test, among the tasks in ts, that are of one key and
\* less than the dedup window apart
ClosePasses(ts) ==
    { << i, j >> \in (1..Len(emitters.passed)) \X (1..Len(emitters.passed)) :
        /\ i < j
        /\ emitters.passed[i].by \in ts /\ emitters.passed[j].by \in ts
        /\ emitters.passed[i].key = emitters.passed[j].key
        /\ emitters.passed[j].at - emitters.passed[i].at < alert_dedup_seconds }

\* C34 as stated: of all the tasks firing one key, the generator among them, at
\* most one per dedup window passes the test and goes on to persist and
\* broadcast.
C34_OnePassPerWindow == ClosePasses(EmitTasks) = {}

\* C34, amended: of the tasks that reach _emit_alert without force, at most one
\* per key and dedup window passes the test, whatever the interleaving at the
\* awaits of insert_alert and broadcast; every alert row and payload is one
\* pass's, and every suppressed firing is less than a window after a pass of
\* its key.
C34_OneUnforcedPassPerWindow ==
    LET unforced == { t \in EmitTasks : ~ Forced(t) }
    IN  /\ ClosePasses(unforced) = {}
        /\ Len(store.alerts) <= Len(emitters.passed)
        /\ Len(sent_alerts) <= Len(store.alerts)
        /\ \A i \in 1..Len(firings) :
              (firings[i].outcome = "suppressed") =>
                  \E j \in 1..Len(emitters.passed) :
                      /\ emitters.passed[j].key = FiringKey(firings[i])
                      /\ emitters.passed[j].at <= firings[i].at
                      /\ firings[i].at - emitters.passed[j].at < alert_dedup_seconds

\* feed1 is awaiting insert_alert for a key when feed2 fires the same key and is
\* suppressed, and the generator, forced, passes for that key too
C34_Witness ==
    \E key \in FiredKeys :
        /\ emitters.task["feed1"].pc = "insert"
        /\ emitters.task["feed1"].key = key
        /\ emitters.task["feed2"].pc = "idle"
        /\ \E i \in 1..Len(firings) :
              /\ FiringKey(firings[i]) = key
              /\ firings[i].outcome = "suppressed"
              /\ firings[i].at = emitters.task["feed1"].at
        /\ emitters.task["generator"].pc # "idle"
        /\ emitters.task["generator"].key = key

\* the firings of the history with the outcome
FiringsWith(outcome) == { i \in 1..Len(firings) : firings[i].outcome = outcome }

\* C35: a firing whose insert_alert raised left no alert row and no payload
\* (rows and payloads are exactly the emitted firings'), but the key's time is
\* at or after it, and every later firing of that key less than
\* alert_dedup_seconds after it is suppressed: no row and no payload of the key
\* is added in that time, also after insert_alert works again.
C35_FailedInsertStillMarks ==
    /\ Len(store.alerts) = Cardinality(FiringsWith("emitted"))
    /\ Len(sent_alerts) = Cardinality(FiringsWith("emitted"))
    /\ \A i \in FiringsWith("raised") :
          /\ LastAt(last_alert_at, FiringKey(firings[i])) >= firings[i].at
          /\ \A j \in 1..Len(firings) :
                ( /\ j > i
                  /\ FiringKey(firings[j]) = FiringKey(firings[i])
                  /\ firings[j].at - firings[i].at < alert_dedup_seconds )
                    => firings[j].outcome = "suppressed"
    /\ (Handled /\ last_call.raised) =>
          \A i \in CallsNamed("insert_alert") :
              /\ i = Len(last_call.calls)
              /\ \A k \in 1..Len(store.alerts) : store.alerts[k] # last_call.calls[i].arg
              /\ \A k \in 1..Len(sent_alerts) :
                    ~ ( /\ PayloadIsOf(sent_alerts[k], RowKey(last_call.calls[i].arg))
                        /\ sent_alerts[k].ts = last_call.calls[i].arg.ts )

\* a key whose insert_alert raised, whose next firing 90 s later was suppressed
\* although insert_alert worked again, and which was emitted when the window
\* had passed
C35_Witness ==
    \E i, j, k \in 1..Len(firings) :
        /\ i < j /\ j < k
        /\ FiringKey(firings[i]) = FiringKey(firings[j])
        /\ FiringKey(firings[j]) = FiringKey(firings[k])
        /\ firings[i].outcome = "raised"
        /\ firings[j].outcome = "suppressed"
        /\ firings[j].at > firings[i].at
        /\ firings[k].outcome = "emitted"
        /\ firings[k].at = firings[i].at + alert_dedup_seconds
        /\ failing = {}

\* the position of a threshold in the configured list
ThresholdIndex(t) == CHOOSE i \in 1..Len(alert_thresholds) : alert_thresholds[i] = t

\* the price broadcasts among the calls of the latest handler call
PriceCalls ==
    { i \in CallsNamed("broadcast") : last_call.calls[i].arg.type = "price" }

\* C36: the calls of one handle_closed_kline are, in this order: insert_kline
\* first; the daily-open update and the window append before anything else (a
\* call that got past insert_kline has the kline in the window and the kline's
\* day stored, also when insert_window_stats then raised); insert_window_stats
\* second, exactly when there are statistics; then _emit_alert for the
\* thresholds in configured order, rapid_drop before rapid_rebound within one
\* threshold; and, unless a Store call raised, exactly one price broadcast,
\* last, with price = kline.close and ts = kline.close_time, built from the
\* daily opens as this kline left them: for a timezone whose date differs from
\* the previous kline's the payload's day_open is this kline's open.
C36_HandlerOrder ==
    Handled =>
        LET kline == Get(last_call.kline)
            calls == last_call.calls
            n     == Len(calls)
            k     == Len(fed[LastSym])
        IN  /\ CallsNamed("insert_kline") = {1}
            /\ calls[1].arg = kline
            /\ n = 1 => last_call.raised /\ ~ KlineAppended /\ kline \notin store.klines
            /\ n > 1 =>
                  /\ KlineAppended
                  /\ \A tz \in DOMAIN timezone_keys :
                        today_key_by_tz[tz][LastSym] = Some(DayOf(tz, kline.open_time))
            /\ CallsNamed("insert_window_stats")
                  = (IF IsNone(last_call.stats) THEN {} ELSE {2})
            /\ \A i \in CallsNamed("_emit_alert") : i > 2
            /\ \A i, j \in CallsNamed("_emit_alert") :
                  i < j =>
                      \/ ThresholdIndex(calls[i].arg[3]) < ThresholdIndex(calls[j].arg[3])
                      \/ /\ calls[i].arg[3] = calls[j].arg[3]
                         /\ calls[i].arg[2] = "rapid_drop"
                         /\ calls[j].arg[2] = "rapid_rebound"
            /\ PriceCalls = (IF last_call.raised THEN {} ELSE {n})
            /\ ~ last_call.raised =>
                  /\ calls[n].arg = PricePayload(LastSym, kline.close, kline.close_time,
                                                 today_open_by_tz)
                  /\ \A i \in CallsNamed("broadcast") \ {n} : calls[i].arg.type = "alert"
                  /\ \A tz \in DOMAIN timezone_keys :
                        (k = 1 \/ (k > 1 /\ DayOf(tz, fed[LastSym][k - 1].open_time)
                                              # DayOf(tz, kline.open_time)))
                            => calls[n].arg.day_open[tz] = Some(kline.open)

\* the kline that opens the UTC day at 1010 after a kline opened at 1000: four
\* alerts broadcast, both kinds for 0.01 and then both for 0.005, and after
\* them the price payload with the UTC day open 1010 and the Beijing one 1000
C36_Witness ==
    /\ Handled /\ ~ last_call.raised
    /\ Len(fed[LastSym]) = 2
    /\ Len(last_call.calls) = 15
    /\ Cardinality(CallsNamed("broadcast")) = 5
    /\ last_call.calls[15].arg.type = "price"
    /\ last_call.calls[15].arg.price = 1010
    /\ last_call.calls[15].arg.day_open["utc"] = Some(1010)
    /\ last_call.calls[15].arg.day_open["beijing"] = Some(1000)
    /\ last_call.calls[14].arg.type = "alert"
    /\ last_call.calls[14].arg.magnitude = alert_thresholds[2]

\* C37: after every closed kline of a tracked symbol the stored day of every
\* timezone for the symbol is the civil date of the kline's open_time there,
\* whatever the order of arrival; and in the step that handles the kline, a
\* timezone whose stored day differs from that date, later or earlier, gets the
\* kline's open as its stored open, a timezone whose stored day equals it keeps
\* its open, and the days and opens of the other symbols are untouched.
C37_DayFollowsLatestKline ==
    /\ [](Handled =>
            \A tz \in DOMAIN timezone_keys :
                today_key_by_tz[tz][LastSym]
                    = Some(CivilDay(tz, Get(last_call.kline).open_time)))
    /\ [][ fed' # fed =>
            LET kline == Get(last_call'.kline)
            IN  \A tz \in DOMAIN timezone_keys : \A s \in Symbols :
                    IF s # kline.symbol
                        THEN /\ today_key_by_tz'[tz][s] = today_key_by_tz[tz][s]
                             /\ today_open_by_tz'[tz][s] = today_open_by_tz[tz][s]
                    ELSE IF today_key_by_tz[tz][s] # Some(CivilDay(tz, kline.open_time))
                        THEN today_open_by_tz'[tz][s] = Some(kline.open)
                        ELSE today_open_by_tz'[tz][s] = today_open_by_tz[tz][s] ]_vars

\* a kline of the minute before midnight UTC handled after one of the minute
\* after it: the stored UTC day went back by one and the stored UTC open is the
\* late kline's 1010, not the 1000 stored before, while the Beijing day and
\* open, the same for both minutes, are unchanged
C37_Witness ==
    /\ Handled
    /\ Len(fed[LastSym]) = 2
    /\ LET first  == fed[LastSym][1]
           second == fed[LastSym][2]
       IN  /\ second.open_time < first.open_time
           /\ CivilDay("utc", second.open_time) = CivilDay("utc", first.open_time) - 1
           /\ today_key_by_tz["utc"][LastSym] = Some(CivilDay("utc", second.open_time))
           /\ first.open = 1000 /\ second.open = 1010
           /\ today_open_by_tz["utc"][LastSym] = Some(1010)
           /\ today_open_by_tz["beijing"][LastSym] = Some(1000)

\* the payloads delivered to a sink
DeliveredTo(c) == { delivered[c][i] : i \in 1..Len(delivered[c]) }

\* C38: a pass works on the copy it took when it started.  While it runs, its
\* targets do not change whatever registers or unregisters, every send goes to
\* a target not yet attempted, and stale holds only targets attempted in this
\* pass whose connection is closed; a payload is delivered only to sinks that
\* were targets of its pass, so a sink registered during the pass does not get
\* it; when the pass ends every target has been attempted once, also those
\* unregistered meanwhile, and the set loses exactly its stale sinks: a sink
\* registered during the pass stays registered.
C38_PassOverCopy ==
    /\ [](sending.pc = "sending" =>
            /\ sending.attempted \cup { sending.todo[i] : i \in 1..Len(sending.todo) }
                  = sending.targets
            /\ \A i \in 1..Len(sending.todo) : sending.todo[i] \notin sending.attempted
            /\ sending.stale \subseteq (sending.attempted \cap broken)
            /\ \A c \in Sinks :
                  Get(sending.payload) \in DeliveredTo(c)
                      => c \in sending.attempted \ sending.stale)
    /\ [](\A i \in 1..Len(passes) : \A c \in Sinks :
            passes[i].payload \in DeliveredTo(c) => c \in passes[i].targets \ passes[i].stale)
    /\ [][ (sending.pc = "sending" /\ sending'.pc = "sending") =>
              /\ sending'.targets = sending.targets
              /\ sending'.payload = sending.payload ]_vars
    /\ [][ (sending.pc = "sending" /\ sending'.pc = "idle") =>
              /\ sending.attempted = sending.targets
              /\ clients' = clients \ sending.stale
              /\ \A c \in clients \ sending.targets : c \in clients' ]_vars

\* a pass took its copy with ws1 alone; ws2 registered while the pass was
\* sending; ws1 closed and was unregistered before its send, which was attempted
\* all the same and failed; the pass ended with ws2 registered and without the
\* payload, and the next pass is sending to ws2
C38_Witness ==
    /\ Len(passes) = 1
    /\ passes[1].targets = {"ws1"}
    /\ passes[1].stale = {"ws1"}
    /\ conn["ws1"].pc = "closed"
    /\ passes[1].payload \notin DeliveredTo("ws2")
    /\ sending.pc = "sending"
    /\ sending.targets = {"ws2"}
    /\ Get(sending.payload) \in DeliveredTo("ws2")

---------------------------------------------------------------------------
(* Views of a reconnect *)

\* the step is the handler raising: json.loads, a conversion or the Store
HandlerRaised ==
    /\ ~ IsNone(handling)
    /\ Len(trace') = Len(trace) + 1
    /\ trace'[Len(trace')].ev = "raise"

\* the step is websockets.connect or the iteration of the connection raising
ConnectionRaised == IsNone(handling) /\ LinkFailure

\* the in-memory maps of the monitor
MemoryState == <<windows, today_key_by_tz, today_open_by_tz, last_alert_at, last_price>>

\* C39: a raising handler and a failing connection end alike: the listener
\* leaves the connection with its unread messages and sleeps from zero, and
\* connects again only after the backoff; from the failure to the new
\* connection nothing of the monitor's state changes (the raising handler
\* keeps what it wrote before it raised: a window at most got its kline and no map
\* loses a key), so a window goes on after the gap with the klines from before it.
C39_ReconnectKeepsState ==
    /\ [][ (HandlerRaised \/ ConnectionRaised)
              => /\ link'.pc = "sleeping"
                 /\ link'.slept = 0
                 /\ inbox' = << >>
                 /\ handling' = NoneVal ]_vars
    /\ [][ (link.pc = "sleeping" /\ link'.pc = "connecting") => link.slept = backoff_sec ]_vars
    /\ [][ (link.pc # "connected" \/ ConnectionRaised) => UNCHANGED MemoryState ]_vars
    /\ [][ HandlerRaised
              => /\ \A s \in DOMAIN windows :
                       \/ windows'[s] = windows[s]
                       \/ /\ windows'[s] # << >>
                          /\ windows'[s] = WindowAppend(windows[s], windows'[s][Len(windows'[s])])
                 /\ \A tz \in DOMAIN today_key_by_tz : \A s \in DOMAIN today_key_by_tz[tz] :
                       /\ ~ IsNone(today_key_by_tz[tz][s]) => ~ IsNone(today_key_by_tz'[tz][s])
                       /\ ~ IsNone(today_open_by_tz[tz][s]) => ~ IsNone(today_open_by_tz'[tz][s])
                 /\ DOMAIN last_alert_at \subseteq DOMAIN last_alert_at'
                 /\ \A s \in DOMAIN last_price :
                       ~ IsNone(last_price[s]) => ~ IsNone(last_price'[s]) ]_vars

\* a kline was handled, the next message could not be decoded, the listener
\* slept and connected again, and the kline that came on the new connection
\* stands in the window behind the one from before the gap
C39_Witness ==
    /\ link.pc = "connected"
    /\ Len(windows["btcusdt"]) = 2
    /\ Len(trace) = 6
    /\ trace[2].ev = "end" /\ trace[2].msg.form = "ok" /\ trace[2].msg.e = "kline"
    /\ trace[4].ev = "raise" /\ trace[4].msg.form = "undecodable"
    /\ trace[6].ev = "end" /\ trace[6].msg.e = "kline"

\* the step leaves the open connection for the next attempt without a sleep
CleanClose == link.pc = "connected" /\ link'.pc = "connecting"

\* C40: asyncio.sleep(backoff_sec) is reached only through the except clause.
\* A connection that ends without exception is followed at once by the next
\* attempt: the step changes nothing but the listener's position, it is the
\* only way the count of clean closes grows, and no sleep starts with it.  An
\* idle listener on an open connection with nothing unread can always take it
\* and a listener that is connecting can always connect, whatever number of
\* clean closes came before: the loop of closes and connections has no limit.
C40_CleanCloseNoBackoff ==
    /\ [][ CleanClose
              => /\ link'.slept = 0
                 /\ ListenerIdle
                 /\ UNCHANGED <<monitorVars, hubVars, listenerVars, worker, starter, emitters>> ]_vars
    /\ [][ link'.closes # link.closes => CleanClose ]_vars
    /\ [][ (link.pc # "sleeping" /\ link'.pc = "sleeping")
              => /\ link'.closes = link.closes
                 /\ HandlerRaised \/ ConnectionRaised ]_vars
    /\ []( (link.pc = "connected" /\ ListenerIdle /\ inbox = << >>)
              => ENABLED (NextLink /\ CleanClose) )
    /\ []( link.pc = "connecting" => ENABLED ConnectOpens )

\* the second connection in a row has ended without exception after a message
\* was handled, and the listener is connecting again; it has not slept
C40_Witness ==
    /\ link.pc = "connecting"
    /\ link.closes = MaxCloses
    /\ link.slept = 0
    /\ Len(trace) = 2
    /\ trace[2].ev = "end"

====
